---- MODULE Spec2Model ----
(***************************************************************************)
(* The HTTP listener of the router: the route table kept by the sync       *)
(* handler (id map, domain map, service entries with refcounts), the       *)
(* host lookup with wildcard fallback, the write API and Close.            *)
(*                                                                         *)
(* A string is a sequence of one-character strings, so that lowercasing,   *)
(* splitting on "." and joining are computed as the Go code computes them. *)
(***************************************************************************)
EXTENDS Integers, Sequences, FiniteSets, TLC

\* ------------------------------------------------------------------ bounds

\* API calls (AddRoute, SetRoute, RemoveRoute) made in one run.
MaxCalls == 2
\* Close calls made in one run.
MaxCloses == 2
\* Events a subscriber's buffer holds.
MaxBuf == 1
\* Seconds the clock of a watcher being established runs.
MaxWatched == 7
\* Seconds the clock of a waitForJobEvents call runs.
MaxElapsed == 62

\* ----------------------------------------------------------------- strings

\* strings.ToLower on one character of the alphabet used here.
LowerChar(c) ==
    CASE c = "A" -> "a"
      [] c = "B" -> "b"
      [] c = "C" -> "c"
      [] c = "U" -> "u"
      [] OTHER -> c

\* strings.ToLower
ToLower(s) == [i \in 1..Len(s) |-> LowerChar(s[i])]

\* strings.Index for a one-character separator; 0 when absent.
Index(s, sep) ==
    IF \E i \in 1..Len(s) : s[i] = sep
    THEN CHOOSE i \in 1..Len(s) : s[i] = sep /\ \A j \in 1..(i-1) : s[j] # sep
    ELSE 0

\* strings.SplitN(s, sep, n) for n > 0: at most n pieces, the last one the
\* unsplit remainder.
RECURSIVE SplitN(_, _, _)
SplitN(s, sep, n) ==
    IF n <= 1 \/ Index(s, sep) = 0
    THEN <<s>>
    ELSE <<SubSeq(s, 1, Index(s, sep) - 1)>>
         \o SplitN(SubSeq(s, Index(s, sep) + 1, Len(s)), sep, n - 1)

\* strings.Join(parts, sep)
RECURSIVE Join(_, _)
Join(parts, sep) ==
    IF Len(parts) = 0 THEN <<>>
    ELSE IF Len(parts) = 1 THEN parts[1]
    ELSE parts[1] \o sep \o Join(Tail(parts), sep)

\* md5sum: the hex digest of the exact bytes of the string. The digest is
\* modelled as an injective tag of the (case-sensitive) input.
md5sum(data) == <<"md5:">> \o data

\* -------------------------------------------------------------------- maps

\* delete(m, k)
MapDelete(m, k) == [x \in (DOMAIN m) \ {k} |-> m[x]]

\* m[k] = v
MapPut(m, k, v) == [x \in (DOMAIN m) \cup {k} |-> IF x = k THEN v ELSE m[x]]

EmptyMap == [x \in {} |-> 0]

\* ------------------------------------------------------------------ inputs

Dom_a_c == <<"a", ".", "c">>
Dom_A_c == <<"A", ".", "c">>
Dom_w_c == <<"*", ".", "c">>
Dom_w_b_c == <<"*", ".", "b", ".", "c">>
Dom_a_b_c == <<"a", ".", "b", ".", "c">>
Dom_w_f == <<"*", ".", "f">>
Dom_w_6 == <<"*", ".", "a", ".", "b", ".", "c", ".", "d", ".", "e", ".", "f">>

\* router.Route values handed to AddRoute / SetRoute (the ID is set by them).
RouteOf(domain, service, sticky, cert, key) ==
    [Domain |-> domain, Service |-> service, Sticky |-> sticky,
     TLSCert |-> cert, TLSKey |-> key]

Routes ==
    { RouteOf(Dom_a_c, "s1", FALSE, "", ""),
      RouteOf(Dom_a_c, "s2", TRUE, "pem", "pem"),
      RouteOf(Dom_A_c, "s1", FALSE, "", ""),
      RouteOf(Dom_w_c, "s1", FALSE, "pem", "bad"),
      RouteOf(Dom_w_c, "s2", FALSE, "", ""),
      RouteOf(Dom_w_b_c, "s1", TRUE, "", ""),
      RouteOf(Dom_a_b_c, "s1", FALSE, "", ""),
      RouteOf(Dom_w_f, "s2", FALSE, "", ""),
      RouteOf(Dom_w_6, "s1", FALSE, "", "") }

RouteIDs == { md5sum(r.Domain) : r \in Routes }

\* Hosts looked up by requests and TLS handshakes.
Hosts ==
    { <<"a", ".", "c">>,
      <<"A", ".", "C">>,
      <<"c">>,
      <<"a", ".", "b", ".", "c">>,
      <<"A", ".", "B", ".", "c">>,
      <<"a", ".", "b", ".", "c", ".", "d", ".", "e", ".", "f">> }

\* tls.X509KeyPair: succeeds on well-formed PEM only.
X509KeyPairOk(cert, key) == cert = "pem" /\ key = "pem"

\* ------------------------------------------------------------------- state

VARIABLES
    phase,          \* "new", "running" (Start returned nil) or "failed"
    closed,         \* HTTPListener.closed
    routes,         \* HTTPListener.routes: id -> route object
    domains,        \* HTTPListener.domains: key -> route object
    services,       \* HTTPListener.services: name -> reference into serviceObjs
    serviceObjs,    \* the httpService objects ever allocated: name, refs, and
                    \* the number of Close calls made on the discovery handle
    nroutes,        \* number of httpRoute objects allocated so far
    syncq,          \* store operations committed and not yet handed to the handler
    sends,          \* events of the spawned wm.Send tasks that have not run yet
    ret,            \* what the last API call returned
    herr,           \* what the last sync-handler call returned
    listenerCloses, \* Close calls made on the plain listener
    tlsListenerCloses, \* Close calls made on the TLS listener
    stopSyncs,      \* StopSync calls made on the data store
    io,             \* the I/O calls the last table operation made, each with
                    \* the mode in which it held the route-table lock
    calls,          \* API calls made so far
    closeCalls,     \* Close calls made so far
    removed,        \* route objects that a Remove returning nil took out
    lookup,         \* the last findRouteForHost call: host and result
    watchers,       \* WatchManager: subscriber -> events buffered for it
    observed,       \* subscriber -> events it has received, in order
    expected,       \* subscriber -> events of the operations the handler
                    \* applied while it was subscribed, in order
    dropped,        \* subscriber -> events Send dropped on its full buffer
    committed,      \* subscriber -> store operations of the API calls that
                    \* returned nil while it was subscribed, in order
    rq,             \* the request being served: where it stands and what it holds
    addrs,          \* discovery: service name -> addresses of its members
    hello,          \* the last TLS handshake: server name, certificate, error
    boot,           \* Start step by step: where it stands, the listener
                    \* tasks it spawned, what happened so far, what it returned
    tun,            \* the upgrade tunnel: its two copies, what its handler
                    \* waits for, which connections are closed
    perform,        \* a Perform call of the deployment waiter: the process
                    \* types left, the watcher it is establishing, the types
                    \* whose watcher delivered a current event, its clocks
    wait,           \* a waitForJobEvents call: expected and actual counts,
                    \* the pairs sent, the events emitted and counted for
                    \* each pair, whether a pair was reported again, the last
                    \* event received, its clocks
    auth,           \* the management handler: its key, the request it was
                    \* given, the status it wrote, whether main served it
    lk,             \* the route-table lock seen step by step: who holds
                    \* it, who waits for it, where each API call, Close and
                    \* the sync loop stand
    fwd,            \* the event-forwarding tasks Perform spawned: the types
                    \* whose task holds an event it is sending on
                    \* serviceEvents, the types whose task has ended
    conn            \* a client connection served by HTTPListener.handle:
                    \* whether the handler is in its loop, and for each
                    \* request read what happened and what was written

watchVars == <<watchers, observed, expected, dropped, committed>>
lifeVars == <<hello, boot>>
sideVars == <<tun, perform, wait, auth, lk, fwd, conn>>
extVars == <<rq, addrs, lifeVars, sideVars>>

\* The listener with its requests, handshakes and subscribers.
listenerVars == <<phase, closed, routes, domains, services, serviceObjs, nroutes,
                  syncq, sends, ret, herr, listenerCloses, tlsListenerCloses,
                  stopSyncs, io, calls, closeCalls, removed, lookup, watchVars,
                  rq, addrs, lifeVars>>

vars == <<listenerVars, sideVars>>

tableVars == <<routes, domains, services, serviceObjs, nroutes>>
ioVars == <<listenerCloses, tlsListenerCloses, stopSyncs, io>>

\* One I/O call: a discovery call, a listener close or a store call, made
\* with the route-table lock held for writing ("W"), for reading ("R") or
\* not held ("none").
IO(call, lock) == [call |-> call, lock |-> lock]

\* The nil *httpRoute.
NilRoute == [ptr |-> 0]
NoRequest == [pc |-> "idle"]
NilCert == [route |-> 0, parsed |-> FALSE]
NoHello == [name |-> <<>>, cert |-> NilCert, err |-> "none"]
NoTunnel ==
    [pc |-> "idle", impl |-> "none", up |-> "none", down |-> "none", errc |-> 0,
     done |-> FALSE, main |-> "none", upClosed |-> FALSE, downClosed |-> FALSE]
NoPerform ==
    [pc |-> "idle", procs |-> EmptyMap, todo |-> {}, cur |-> "none",
     useJobEvents |-> {}, synced |-> {}, chan |-> "none", consumed |-> FALSE,
     timer |-> 0, waited |-> 0, jobStream |-> FALSE, invoked |-> FALSE,
     ret |-> "none"]
NoWait ==
    [pc |-> "idle", expected |-> EmptyMap, actual |-> EmptyMap, sentEvents |-> {},
     emitted |-> EmptyMap, counted |-> EmptyMap, dup |-> FALSE, timer |-> 0,
     elapsed |-> 0,
     last |-> [src |-> "none", ev |-> <<>>], ret |-> "none"]
NotStarted ==
    [pc |-> "new", ret |-> "none", log |-> <<>>, lpc |-> "none", lerr |-> FALSE,
     tpc |-> "none", terr |-> FALSE, listener |-> FALSE, tlsListener |-> FALSE]

\* ------------------------------------------------------------------ lookup

\* The key tried at step i of the wildcard loop: "*." + Join(d[len(d)-i:], ".")
WildcardKey(d, i) == <<"*", ".">> \o Join(SubSeq(d, Len(d) - i + 1, Len(d)), <<".">>)

\* A wildcard loop that tries the keys from least specific to most specific.
RECURSIVE WildcardLoop_leastFirst(_, _)
WildcardLoop_leastFirst(d, i) ==
    IF i <= 0 THEN NilRoute
    ELSE IF WildcardKey(d, Len(d) - i + 1) \in DOMAIN domains
    THEN domains[WildcardKey(d, Len(d) - i + 1)]
    ELSE WildcardLoop_leastFirst(d, i - 1)

\* for i := len(d); i > 0; i-- { if backend, ok := domains[key]; ok { return } }
RECURSIVE WildcardLoop(_, _)
WildcardLoop(d, i) ==
    IF i <= 0 THEN NilRoute
    ELSE IF WildcardKey(d, i) \in DOMAIN domains THEN domains[WildcardKey(d, i)]
    ELSE WildcardLoop(d, i - 1)

\* A lookup that does not lowercase the host.
findRouteForHost_noLower(host) ==
    LET d == SplitN(host, ".", 5)
    IN  IF host \in DOMAIN domains THEN domains[host]
        ELSE WildcardLoop(d, Len(d))

findRouteForHost(host) ==
    LET h == ToLower(host)
        d == SplitN(h, ".", 5)
    IN  IF h \in DOMAIN domains THEN domains[h]
        ELSE WildcardLoop(d, Len(d))

\* ------------------------------------------------------------------- Start

\* The callers of AddRoute, SetRoute and RemoveRoute.
Callers == {"c1", "c2"}

\* A started listener: nobody holds or awaits s.mtx, the sync loop runs, no
\* store operation is pending, Close has not been called.
Unlocked ==
    [w |-> "none", r |-> {}, pending |-> {},
     api |-> [c \in Callers |-> "idle"], ret |-> [c \in Callers |-> "none"],
     close |-> "idle", sync |-> "loop", q |-> 0,
     stop |-> FALSE, closed |-> FALSE, blocked |-> FALSE]

\* No client connection has been accepted.
NoConn == [pc |-> "none", log |-> <<>>]

\* No management handler has been built.
NoAuth == [pc |-> "none"]

Init ==
    /\ phase = "new"
    /\ closed = FALSE
    /\ routes = EmptyMap
    /\ domains = EmptyMap
    /\ services = EmptyMap
    /\ serviceObjs = <<>>
    /\ nroutes = 0
    /\ syncq = <<>>
    /\ sends = EmptyMap
    /\ ret = "none"
    /\ herr = "none"
    /\ listenerCloses = 0
    /\ tlsListenerCloses = 0
    /\ stopSyncs = 0
    /\ io = {}
    /\ calls = 0
    /\ closeCalls = 0
    /\ removed = {}
    /\ lookup = [host |-> <<>>, result |-> NilRoute, done |-> FALSE]
    /\ watchers = EmptyMap
    /\ observed = EmptyMap
    /\ expected = EmptyMap
    /\ dropped = EmptyMap
    /\ committed = EmptyMap
    /\ rq = NoRequest
    /\ addrs = [n \in {"s1", "s2"} |-> {}]
    /\ hello = NoHello
    /\ boot = NotStarted
    /\ tun = NoTunnel
    /\ perform = NoPerform
    /\ wait = NoWait
    /\ auth = NoAuth
    /\ lk = Unlocked
    /\ fwd = [sending |-> {}, ended |-> {}]
    /\ conn = NoConn

\* Start: the sync loop, then the plain listener, then the TLS listener, each
\* reporting an error or nil on the started channel.
Start(syncOk, listenOk, tlsOk) ==
    /\ phase = "new"
    /\ routes' = EmptyMap
    /\ domains' = EmptyMap
    /\ services' = EmptyMap
    /\ IF ~syncOk
       THEN /\ phase' = "failed"
            /\ io' = {}
            /\ UNCHANGED <<listenerCloses, tlsListenerCloses, stopSyncs>>
       ELSE IF ~listenOk
       THEN /\ phase' = "failed"
            /\ stopSyncs' = stopSyncs + 1
            /\ io' = {IO("ds.StopSync", "none")}
            /\ UNCHANGED <<listenerCloses, tlsListenerCloses>>
       ELSE IF ~tlsOk
       THEN /\ phase' = "failed"
            /\ stopSyncs' = stopSyncs + 1
            /\ listenerCloses' = listenerCloses + 1
            /\ io' = {IO("ds.StopSync", "none"), IO("listener.Close", "none")}
            /\ UNCHANGED tlsListenerCloses
       ELSE /\ phase' = "running"
            /\ io' = {}
            /\ UNCHANGED <<listenerCloses, tlsListenerCloses, stopSyncs>>
    /\ UNCHANGED <<closed, serviceObjs, nroutes, syncq, sends, ret, herr, calls,
                   closeCalls, removed, lookup>>
    /\ UNCHANGED <<watchVars, extVars>>

\* ---------------------------------------------------------- spawned sends

\* A handler that starts no Send task.
Spawn_none(tasks, ev) == tasks

\* go h.l.wm.Send(ev): one more task holding ev, in no order with the others.
Spawn(tasks, ev) ==
    [e \in (DOMAIN tasks) \cup {ev} |->
        IF e \in DOMAIN tasks THEN tasks[e] + (IF e = ev THEN 1 ELSE 0) ELSE 1]

\* The task holding ev has run.
Finish(tasks, ev) ==
    IF tasks[ev] = 1 THEN MapDelete(tasks, ev)
    ELSE [tasks EXCEPT ![ev] = @ - 1]

\* -------------------------------------------------------------- data store

\* DataStore.Add / Set / Remove: the operation is committed and queued for the
\* sync loop, which hands it to the handler later.
dsAdd(q, r) == Append(q, [op |-> "set", data |-> r])
dsSet(q, r) == Append(q, [op |-> "set", data |-> r])
dsRemove(q, id) == Append(q, [op |-> "remove", id |-> id])

\* --------------------------------------------------------------- write API

\* One more entry in the record kept for every subscriber watching now.
Note(rec, x, happened) ==
    IF happened THEN [s \in DOMAIN rec |-> Append(rec[s], x)] ELSE rec

WithID(r) ==
    [ID |-> md5sum(r.Domain), Domain |-> r.Domain, Service |-> r.Service,
     Sticky |-> r.Sticky, TLSCert |-> r.TLSCert, TLSKey |-> r.TLSKey]

\* An AddRoute that does not look at closed.
AddRoute_noClosedCheck(r, dsOk) ==
    /\ phase = "running"
    /\ calls < MaxCalls
    /\ calls' = calls + 1
    /\ IF dsOk
       THEN /\ syncq' = dsAdd(syncq, WithID(r))
            /\ ret' = "nil"
       ELSE /\ ret' = "error"
            /\ UNCHANGED syncq
    /\ UNCHANGED <<phase, closed, tableVars, sends, herr, listenerCloses,
                   tlsListenerCloses, stopSyncs, closeCalls, removed, lookup>>
    /\ io' = {IO("ds.Add", "R")}
    /\ committed' = Note(committed, [op |-> "set", data |-> WithID(r)], ret' = "nil")
    /\ UNCHANGED <<watchers, observed, expected, dropped, extVars>>

AddRoute(r, dsOk) ==
    /\ phase = "running"
    /\ calls < MaxCalls
    /\ calls' = calls + 1
    /\ IF closed
       THEN /\ ret' = "ErrClosed"
            /\ UNCHANGED syncq
       ELSE IF dsOk
       THEN /\ syncq' = dsAdd(syncq, WithID(r))
            /\ ret' = "nil"
       ELSE /\ ret' = "error"
            /\ UNCHANGED syncq
    /\ UNCHANGED <<phase, closed, tableVars, sends, herr, listenerCloses,
                   tlsListenerCloses, stopSyncs, closeCalls, removed, lookup>>
    /\ io' = IF closed THEN {} ELSE {IO("ds.Add", "R")}
    /\ committed' = Note(committed, [op |-> "set", data |-> WithID(r)], ret' = "nil")
    /\ UNCHANGED <<watchers, observed, expected, dropped, extVars>>

SetRoute(r, dsOk) ==
    /\ phase = "running"
    /\ calls < MaxCalls
    /\ calls' = calls + 1
    /\ IF closed
       THEN /\ ret' = "ErrClosed"
            /\ UNCHANGED syncq
       ELSE IF dsOk
       THEN /\ syncq' = dsSet(syncq, WithID(r))
            /\ ret' = "nil"
       ELSE /\ ret' = "error"
            /\ UNCHANGED syncq
    /\ UNCHANGED <<phase, closed, tableVars, sends, herr, listenerCloses,
                   tlsListenerCloses, stopSyncs, closeCalls, removed, lookup>>
    /\ io' = IF closed THEN {} ELSE {IO("ds.Set", "R")}
    /\ committed' = Note(committed, [op |-> "set", data |-> WithID(r)], ret' = "nil")
    /\ UNCHANGED <<watchers, observed, expected, dropped, extVars>>

RemoveRoute(id, dsOk) ==
    /\ phase = "running"
    /\ calls < MaxCalls
    /\ calls' = calls + 1
    /\ IF closed
       THEN /\ ret' = "ErrClosed"
            /\ UNCHANGED syncq
       ELSE IF dsOk
       THEN /\ syncq' = dsRemove(syncq, id)
            /\ ret' = "nil"
       ELSE /\ ret' = "error"
            /\ UNCHANGED syncq
    /\ UNCHANGED <<phase, closed, tableVars, sends, herr, listenerCloses,
                   tlsListenerCloses, stopSyncs, closeCalls, removed, lookup>>
    /\ io' = IF closed THEN {} ELSE {IO("ds.Remove", "R")}
    /\ committed' = Note(committed, [op |-> "remove", id |-> id], ret' = "nil")
    /\ UNCHANGED <<watchers, observed, expected, dropped, extVars>>

\* ------------------------------------------------------------ sync handler

\* httpSyncHandler.Set. nssOk: whether discoverd.NewServiceSet succeeds if called.
Set(data, nssOk) ==
    LET parse == data.TLSCert # "" /\ data.TLSKey # ""
        old == IF data.Service \in DOMAIN services THEN services[data.Service] ELSE 0
        \* service != nil && service.name != r.Service
        differs == old # 0 /\ serviceObjs[old].name # data.Service
        drop == differs /\ serviceObjs[old].refs - 1 <= 0
        objs1 == IF differs
                 THEN [serviceObjs EXCEPT
                         ![old].refs = @ - 1,
                         ![old].closes = IF drop THEN @ + 1 ELSE @]
                 ELSE serviceObjs
        svcs1 == IF drop THEN MapDelete(services, serviceObjs[old].name) ELSE services
        cur == IF differs THEN 0 ELSE old
        objs2 == IF cur = 0
                 THEN Append(objs1, [name |-> data.Service, refs |-> 0, closes |-> 0])
                 ELSE objs1
        ref == IF cur = 0 THEN Len(objs1) + 1 ELSE cur
        svcs2 == IF cur = 0 THEN MapPut(svcs1, data.Service, ref) ELSE svcs1
        r == [ptr |-> nroutes + 1, ID |-> data.ID, Domain |-> data.Domain,
              Service |-> data.Service, Sticky |-> data.Sticky,
              TLSCert |-> IF parse THEN "" ELSE data.TLSCert,
              TLSKey |-> IF parse THEN "" ELSE data.TLSKey,
              keypair |-> parse, service |-> ref]
        \* the calls made between mtx.Lock() and the deferred mtx.Unlock()
        calls1 == (IF drop THEN {IO("ss.Close", "W")} ELSE {})
                  \cup (IF cur = 0 THEN {IO("discoverd.NewServiceSet", "W")} ELSE {})
    IN  IF parse /\ ~X509KeyPairOk(data.TLSCert, data.TLSKey)
        THEN /\ herr' = "error"
             /\ io' = {}
             /\ UNCHANGED <<tableVars, sends>>
        ELSE IF closed
        THEN /\ herr' = "nil"
             /\ io' = {}
             /\ UNCHANGED <<tableVars, sends>>
        ELSE IF cur = 0 /\ ~nssOk
        THEN /\ herr' = "error"
             /\ io' = calls1
             /\ serviceObjs' = objs1
             /\ services' = svcs1
             /\ UNCHANGED <<routes, domains, nroutes, sends>>
        ELSE /\ io' = calls1
             /\ serviceObjs' = [objs2 EXCEPT ![ref].refs = @ + 1]
             /\ services' = svcs2
             /\ routes' = MapPut(routes, data.ID, r)
             /\ domains' = MapPut(domains, ToLower(r.Domain), r)
             /\ nroutes' = nroutes + 1
             /\ sends' = Spawn(sends, [Event |-> "set", ID |-> r.Domain])
             /\ herr' = "nil"

\* What Remove takes out: nothing unless it returns nil.
Removed(id) == IF ~closed /\ id \in DOMAIN routes THEN {routes[id]} ELSE {}

\* Remove for an ID that is in the id map: the service's refs go down, at
\* zero its handle is closed and its entry deleted, the route leaves both
\* maps, the event is sent.
RemoveFound(id) ==
    LET r == routes[id]
        drop == serviceObjs[r.service].refs - 1 <= 0
    IN  /\ serviceObjs' = [serviceObjs EXCEPT
                             ![r.service].refs = @ - 1,
                             ![r.service].closes = IF drop THEN @ + 1 ELSE @]
        /\ services' = IF drop
                       THEN MapDelete(services, serviceObjs[r.service].name)
                       ELSE services
        /\ routes' = MapDelete(routes, id)
        /\ domains' = MapDelete(domains, r.Domain)
        /\ sends' = Spawn(sends, [Event |-> "remove", ID |-> id])
        /\ herr' = "nil"
        /\ io' = IF drop THEN {IO("ss.Close", "W")} ELSE {}
        /\ UNCHANGED nroutes

\* A Remove that does not test h.l.closed.
Remove_noClosedCheck(id) ==
    IF id \notin DOMAIN routes
    THEN /\ herr' = "ErrNotFound"
         /\ io' = {}
         /\ UNCHANGED <<tableVars, sends>>
    ELSE RemoveFound(id)

\* A Remove that sends its event before it looks the ID up.
Remove_eventFirst(id) ==
    IF closed
    THEN /\ herr' = "nil"
         /\ io' = {}
         /\ UNCHANGED <<tableVars, sends>>
    ELSE IF id \notin DOMAIN routes
    THEN /\ herr' = "ErrNotFound"
         /\ io' = {}
         /\ sends' = Spawn(sends, [Event |-> "remove", ID |-> id])
         /\ UNCHANGED tableVars
    ELSE RemoveFound(id)

\* httpSyncHandler.Remove
Remove(id) ==
    IF closed
    THEN /\ herr' = "nil"
         /\ io' = {}
         /\ UNCHANGED <<tableVars, sends>>
    ELSE IF id \notin DOMAIN routes
    THEN /\ herr' = "ErrNotFound"
         /\ io' = {}
         /\ UNCHANGED <<tableVars, sends>>
    ELSE RemoveFound(id)

\* The sync loop hands the oldest committed operation to the handler; the
\* handlers run one at a time.
SyncSet(nssOk) ==
    /\ syncq # <<>>
    /\ Head(syncq).op = "set"
    /\ Set(Head(syncq).data, nssOk)
    /\ syncq' = Tail(syncq)
    /\ expected' = Note(expected,
                        [Event |-> "set", ID |-> Head(syncq).data.Domain],
                        nroutes' # nroutes)
    /\ UNCHANGED <<phase, closed, ret, listenerCloses, tlsListenerCloses, stopSyncs,
                   calls, closeCalls, removed, lookup>>
    /\ UNCHANGED <<watchers, observed, dropped, committed, extVars>>

SyncRemove ==
    /\ syncq # <<>>
    /\ Head(syncq).op = "remove"
    /\ Remove(Head(syncq).id)
    /\ removed' = removed \cup Removed(Head(syncq).id)
    /\ syncq' = Tail(syncq)
    /\ expected' = Note(expected,
                        [Event |-> "remove", ID |-> Head(syncq).id],
                        Removed(Head(syncq).id) # {})
    /\ UNCHANGED <<phase, closed, ret, listenerCloses, tlsListenerCloses, stopSyncs,
                   calls, closeCalls, lookup>>
    /\ UNCHANGED <<watchers, observed, dropped, committed, extVars>>

\* ----------------------------------------------------------- watch manager

\* WatchManager.Watch(ch): ch is subscribed with nothing buffered.
Watch(s) ==
    /\ phase = "running"
    /\ s \notin DOMAIN watchers
    /\ watchers' = MapPut(watchers, s, <<>>)
    /\ observed' = MapPut(observed, s, <<>>)
    /\ expected' = MapPut(expected, s, <<>>)
    /\ dropped' = MapPut(dropped, s, <<>>)
    /\ committed' = MapPut(committed, s, <<>>)
    /\ UNCHANGED <<phase, closed, tableVars, syncq, sends, ret, herr, ioVars,
                   calls, closeCalls, removed, lookup, extVars>>

\* WatchManager.Unwatch(ch): idempotent.
Unwatch(s) ==
    /\ phase = "running"
    /\ watchers' = MapDelete(watchers, s)
    /\ observed' = MapDelete(observed, s)
    /\ expected' = MapDelete(expected, s)
    /\ dropped' = MapDelete(dropped, s)
    /\ committed' = MapDelete(committed, s)
    /\ UNCHANGED <<phase, closed, tableVars, syncq, sends, ret, herr, ioVars,
                   calls, closeCalls, removed, lookup, extVars>>

\* Fan-out of one event: appended to every subscriber's buffer that has room,
\* dropped for the others; the sender never blocks.
Deliver(ws, ev) ==
    [s \in DOMAIN ws |-> IF Len(ws[s]) < MaxBuf THEN Append(ws[s], ev) ELSE ws[s]]

Drop(ws, dr, ev) ==
    [s \in DOMAIN dr |-> IF Len(ws[s]) < MaxBuf THEN dr[s] ELSE Append(dr[s], ev)]

\* A spawned wm.Send task runs.
Send(ev) ==
    /\ ev \in DOMAIN sends
    /\ sends' = Finish(sends, ev)
    /\ watchers' = Deliver(watchers, ev)
    /\ dropped' = Drop(watchers, dropped, ev)
    /\ UNCHANGED <<phase, closed, tableVars, syncq, ret, herr, ioVars, calls,
                   closeCalls, removed, lookup>>
    /\ UNCHANGED <<observed, expected, committed, extVars>>

\* The subscriber takes the oldest event buffered for it.
Recv(s) ==
    /\ s \in DOMAIN watchers
    /\ watchers[s] # <<>>
    /\ observed' = [observed EXCEPT ![s] = Append(@, Head(watchers[s]))]
    /\ watchers' = [watchers EXCEPT ![s] = Tail(@)]
    /\ UNCHANGED <<phase, closed, tableVars, syncq, sends, ret, herr, ioVars,
                   calls, closeCalls, removed, lookup, expected, dropped, committed,
                   extVars>>

\* ------------------------------------------------------------------- Close

\* service.ss.Close() for every entry of the services map.
CloseAll(objs) ==
    [ref \in DOMAIN objs |->
        IF \E n \in DOMAIN services : services[n] = ref
        THEN [objs[ref] EXCEPT !.closes = @ + 1]
        ELSE objs[ref]]

Close ==
    /\ phase = "running"
    /\ closeCalls < MaxCloses
    /\ closeCalls' = closeCalls + 1
    /\ serviceObjs' = CloseAll(serviceObjs)
    /\ listenerCloses' = listenerCloses + 1
    /\ tlsListenerCloses' = tlsListenerCloses + 1
    /\ stopSyncs' = stopSyncs + 1
    /\ io' = (IF services = EmptyMap THEN {} ELSE {IO("ss.Close", "W")})
             \cup {IO("listener.Close", "W"), IO("tlsListener.Close", "W"),
                   IO("ds.StopSync", "W")}
    /\ closed' = TRUE
    /\ UNCHANGED <<phase, routes, domains, services, nroutes, syncq, sends, ret,
                   herr, calls, removed, lookup>>
    /\ UNCHANGED <<watchVars, extVars>>

\* ---------------------------------------------------------------- requests

\* ServeHTTP and the TLS certificate callback start with findRouteForHost.
ServeHTTP(host) ==
    /\ phase = "running"
    /\ lookup' = [host |-> host, result |-> findRouteForHost(host), done |-> TRUE]
    /\ UNCHANGED <<phase, closed, tableVars, syncq, sends, ret, herr, ioVars,
                   calls, closeCalls, removed>>
    /\ UNCHANGED <<watchVars, extVars>>

\* ----------------------------------------------------------------- headers

Range(f) == { f[x] : x \in DOMAIN f }

hopHeaders ==
    <<"Connection", "Keep-Alive", "Proxy-Authenticate", "Proxy-Authorization",
      "Te", "Trailers", "Transfer-Encoding", "Upgrade">>

hdrUseStickySessions == "Flynn-Use-Sticky-Sessions"

\* Header values, as strings.
Val_true == <<"t", "r", "u", "e">>
Val_Upgrade == <<"U", "p", "g", "r", "a", "d", "e">>
Val_upgrade == <<"u", "p", "g", "r", "a", "d", "e">>
Val_x == <<"x">>
Val_empty == <<>>

\* http.Header.Get: the value under the name, "" when there is none.
Get(h, name) == IF name \in DOMAIN h THEN h[name] ELSE <<>>

\* The loop over hopHeaders before RoundTrip: a header is deleted from the
\* outgoing copy when Get gives a non-empty value for it.
StripRequest(h) ==
    [name \in (DOMAIN h) \ { x \in Range(hopHeaders) : Get(h, x) # <<>> } |-> h[name]]

\* for _, h := range hopHeaders { res.Header.Del(h) }
StripResponse(h) == [name \in (DOMAIN h) \ Range(hopHeaders) |-> h[name]]

\* res.Header.Add("Set-Cookie", stickyCookie.String()) when a cookie was minted.
AddCookie(h, cookie) ==
    IF cookie.present THEN MapPut(h, "Set-Cookie", cookie.value) ELSE h

\* Headers of the requests clients send.
ReqHeaders ==
    { EmptyMap,
      [n \in {"Accept"} |-> Val_x],
      [n \in {hdrUseStickySessions} |-> Val_true],
      [n \in {"Connection", "Upgrade"} |-> IF n = "Connection" THEN Val_Upgrade ELSE Val_x],
      [n \in {"Connection", "Keep-Alive", "Te"} |-> Val_x],
      [n \in {"Accept", "Upgrade"} |-> IF n = "Upgrade" THEN Val_empty ELSE Val_x],
      [n \in Range(hopHeaders) |-> Val_x] }

\* Headers of the responses backends send.
ResHeaders ==
    { [n \in {"Content-Type"} |-> Val_x],
      [n \in {"Content-Type", "Connection", "Keep-Alive", "Transfer-Encoding"} |-> Val_x],
      [n \in {"Content-Type", "Upgrade"} |-> IF n = "Upgrade" THEN Val_empty ELSE Val_x] }

\* ------------------------------------------------------------ sticky cookie

\* Backend addresses the discovery service may report.
AllAddrs == {"b1", "b2"}

\* The listener's cookie key (shared by its services) and another key.
cookieKey == "key0"
OtherKey == "key1"

\* var nonce [24]byte
NonceLen == 24

\* One byte of a cookie's data: a nonce byte, or a byte of the sealed box,
\* which depends on the key, the whole nonce and the whole message.
NonceByte(v) == [role |-> "nonce", v |-> v, box |-> <<>>]
BoxByte(role, msg, nonce, key) == [role |-> role, v |-> "", box |-> <<key, nonce, msg>>]
JunkByte == [role |-> "junk", v |-> "", box |-> <<>>]

\* io.ReadFull(rand.Reader, nonce[:])
NonceVals == {"n1", "n2"}
Nonce(v) == [i \in 1..NonceLen |-> NonceByte(v)]

\* secretbox.Seal(nil, msg, nonce, key): an authenticator followed by the ciphertext.
Seal(msg, nonce, key) ==
    <<BoxByte("tag", msg, nonce, key), BoxByte("body", msg, nonce, key)>>

\* An Open that does not authenticate: it returns what the box holds.
Open_noAuth(box, nonce, key) ==
    IF Len(box) = 2 /\ box[2].role = "body"
    THEN [ok |-> TRUE, res |-> box[2].box[3]]
    ELSE [ok |-> FALSE, res |-> ""]

\* secretbox.Open(nil, box, nonce, key): the message, when box is what Seal
\* gives for some message under this nonce and this key.
Open(box, nonce, key) ==
    LET ms == { m \in AllAddrs : box = Seal(m, nonce, key) }
    IN  IF ms = {} THEN [ok |-> FALSE, res |-> ""]
        ELSE [ok |-> TRUE, res |-> CHOOSE m \in ms : TRUE]

\* base64.StdEncoding: one character per byte here.
EncodeToString(data) == [i \in 1..Len(data) |-> [b64 |-> TRUE, byte |-> data[i]]]

DecodeString(s) ==
    IF \A i \in 1..Len(s) : s[i].b64
    THEN [err |-> FALSE, data |-> [i \in 1..Len(s) |-> s[i].byte]]
    ELSE [err |-> TRUE, data |-> <<>>]

NotBase64Char == [b64 |-> FALSE, byte |-> JunkByte]

NoCookie == [present |-> FALSE, value |-> <<>>]

\* The cookie pickNewBackendSticky mints for backend: nonce || box, encoded.
SealCookie(backend, nonce, key) ==
    [present |-> TRUE,
     value |-> EncodeToString(nonce \o Seal(backend, nonce, key))]

\* What pickBackendSticky makes of the request's _backend cookie.
OpenCookie(cookie, key) ==
    LET d == DecodeString(cookie.value)
    IN  IF ~cookie.present THEN [ok |-> FALSE, res |-> ""]
        ELSE IF d.err THEN [ok |-> FALSE, res |-> ""]
        ELSE IF Len(d.data) < NonceLen THEN [ok |-> FALSE, res |-> ""]
        ELSE Open(SubSeq(d.data, NonceLen + 1, Len(d.data)),
                  SubSeq(d.data, 1, NonceLen), key)

\* Cookies clients send: none, minted ones, and damaged or foreign ones.
Truncated(cookie, n) == [cookie EXCEPT !.value = SubSeq(@, 1, n)]
Altered(cookie, i) ==
    [cookie EXCEPT !.value[i] = [b64 |-> TRUE, byte |-> JunkByte]]

GoodCookies == { SealCookie(b, Nonce(v), cookieKey) : b \in AllAddrs, v \in NonceVals }

\* The cookies that get damaged.
BaseCookies == { SealCookie(b, Nonce("n1"), cookieKey) : b \in AllAddrs }

TruncatedCookies ==
    { Truncated(c, n) : c \in BaseCookies, n \in {0, NonceLen - 1, NonceLen, NonceLen + 1} }

AlteredCookies ==
    { Altered(c, i) : c \in BaseCookies, i \in {1, NonceLen, NonceLen + 1, NonceLen + 2} }

NotBase64Cookies == { [c EXCEPT !.value = Append(@, NotBase64Char)] : c \in BaseCookies }

ForeignCookies == { SealCookie(b, Nonce("n1"), OtherKey) : b \in AllAddrs }

BadCookies == TruncatedCookies \cup AlteredCookies \cup NotBase64Cookies \cup ForeignCookies

\* ------------------------------------------------------------- the request

\* The three ways a request goes through the listener.
Path_ServeHTTP == "ServeHTTP"       \* HTTPListener.ServeHTTP, shared transport
Path_handle == "handle"             \* HTTPListener.handle, raw connections
Path_Plain == "ServeHTTP (plain)"   \* the ServeHTTP that sits beside handle

NoResponse == <<>>

\* A request as it arrives: nothing looked up, picked, forwarded or answered.
NewRequest(path, host, hdrs, cookie) ==
    [pc |-> "routed", path |-> path, host |-> host, hdrs |-> hdrs, cookie |-> cookie,
     route |-> NilRoute, sticky |-> FALSE, opened |-> [ok |-> FALSE, res |-> ""],
     fresh |-> FALSE, snap1 |-> {}, dialFailed |-> FALSE, snap |-> {}, up |-> {},
     backend |-> "",
     newCookie |-> NoCookie, upgrade |-> FALSE, transport |-> "none",
     fwd |-> <<>>, resps |-> NoResponse, tunnel |-> FALSE, panic |-> FALSE]

Response(status, hdrs) == [status |-> status, hdrs |-> hdrs]

\* fail(w, code, msg)
Fail(r, code) ==
    [r EXCEPT !.pc = "done", !.resps = Append(@, Response(code, EmptyMap))]

\* The service entry found by name in the services map at the time of use.
ServiceOf_byName(r) ==
    IF r.Service \in DOMAIN services THEN services[r.Service] ELSE 0

\* r.service, the service object the route was linked to by Set.
ServiceOf(r) == r.service

\* s.ss.Addrs(): the handle's snapshot of the service's members. A closed
\* handle keeps answering from what it saw.
Addrs(ref) == addrs[serviceObjs[ref].name]

\* The discovery service reports a change of a service's members.
Membership(name, members) ==
    /\ addrs' = [addrs EXCEPT ![name] = members]
    /\ UNCHANGED <<phase, closed, tableVars, syncq, sends, ret, herr, ioVars,
                   calls, closeCalls, removed, lookup, watchVars, rq, lifeVars, sideVars>>

\* HTTPListener.ServeHTTP / HTTPListener.handle up to the call into the
\* service: the lookup under the read lock, 404 on a miss, and on the shared
\* transport path the marker header set for a sticky route.
ListenerServe(path, host, hdrs, cookie) ==
    /\ phase = "running"
    /\ rq.pc = "idle"
    /\ LET r == findRouteForHost(host)
           new == NewRequest(path, host, hdrs, cookie)
       IN  rq' = IF r = NilRoute THEN Fail(new, 404)
                 ELSE [new EXCEPT
                         !.route = r,
                         !.hdrs = IF path = Path_ServeHTTP /\ r.Sticky
                                  THEN MapPut(hdrs, hdrUseStickySessions, Val_true)
                                  ELSE hdrs]
    /\ UNCHANGED <<phase, closed, tableVars, syncq, sends, ret, herr, ioVars,
                   calls, closeCalls, removed, lookup, watchVars, addrs, lifeVars, sideVars>>

\* Whether the service takes the sticky branch.
UseSticky(r) ==
    CASE r.path = Path_ServeHTTP -> Get(r.hdrs, hdrUseStickySessions) = Val_true
      [] r.path = Path_handle -> r.route.Sticky
      [] OTHER -> FALSE

\* A membership test that always succeeds.
InAddrs_always(addr, snapshot) == TRUE

\* for _, a := range s.ss.Addrs() { if a == addr { ok = true } }
InAddrs(addr, snapshot) == addr \in snapshot

\* pickBackend / connectBackend: "" on an empty pool, else one of its
\* addresses; connectBackend takes one that accepts the connection.
Candidates(path, snapshot, up) ==
    IF path = Path_handle THEN snapshot \cap up ELSE snapshot

\* A sticky selection that trusts no cookie.
Hit_never(path, o, snapshot, up) == FALSE

\* Whether the opened cookie names the backend: its address is in the Addrs()
\* snapshot and, where the selection dials it itself, the dial succeeds.
Hit(path, o, snapshot, up) ==
    /\ o.ok
    /\ InAddrs(o.res, snapshot)
    /\ path = Path_handle => o.res \in up

\* The first half of backend selection. Sticky branch: the cookie is opened
\* and its address looked for in Addrs(); a hit is the backend, anything else
\* leaves the fresh pick to pickNewBackendSticky. Other branch: pickBackend.
PickBackend(up, choice) ==
    /\ rq.pc = "routed"
    /\ LET svc == ServiceOf(rq.route)
           snapshot == Addrs(svc)
           sticky == UseSticky(rq)
           hdrs == IF sticky /\ rq.path = Path_ServeHTTP
                   THEN MapDelete(rq.hdrs, hdrUseStickySessions) ELSE rq.hdrs
           o == OpenCookie(rq.cookie, cookieKey)
           hit == Hit(rq.path, o, snapshot, up)
           cands == Candidates(rq.path, snapshot, up)
           upOf == IF rq.path = Path_handle THEN up ELSE {}
       IN  IF svc = 0
           THEN rq' = [rq EXCEPT !.pc = "done", !.panic = TRUE]
           ELSE IF sticky
           THEN rq' = [rq EXCEPT
                         !.sticky = TRUE, !.hdrs = hdrs, !.opened = o,
                         !.snap1 = snapshot,
                         !.dialFailed = /\ rq.path = Path_handle
                                        /\ o.ok
                                        /\ InAddrs(o.res, snapshot)
                                        /\ o.res \notin up,
                         !.pc = IF hit THEN "picked" ELSE "fresh",
                         !.backend = IF hit THEN o.res ELSE ""]
           ELSE IF cands = {}
           THEN rq' = Fail([rq EXCEPT !.snap = snapshot, !.up = upOf, !.transport = "nopool"], 503)
           ELSE /\ choice \in cands
                /\ rq' = [rq EXCEPT !.snap = snapshot, !.up = upOf,
                                    !.pc = "picked", !.backend = choice]
    /\ UNCHANGED <<phase, closed, tableVars, syncq, sends, ret, herr, ioVars,
                   calls, closeCalls, removed, lookup, watchVars, addrs, lifeVars, sideVars>>

\* pickNewBackendSticky / getNewBackendSticky: a fresh pick from Addrs() read
\* again, and a new cookie sealing the picked address under a random nonce.
PickNewBackendSticky(up, choice, v) ==
    /\ rq.pc = "fresh"
    /\ LET snapshot == Addrs(ServiceOf(rq.route))
           cands == Candidates(rq.path, snapshot, up)
           upOf == IF rq.path = Path_handle THEN up ELSE {}
       IN  IF cands = {}
           THEN rq' = Fail([rq EXCEPT !.fresh = TRUE, !.snap = snapshot, !.up = upOf,
                                      !.transport = "nopool"], 503)
           ELSE /\ choice \in cands
                /\ rq' = [rq EXCEPT
                            !.fresh = TRUE, !.snap = snapshot, !.up = upOf,
                            !.pc = "picked", !.backend = choice,
                            !.newCookie = SealCookie(choice, Nonce(v), cookieKey)]
    /\ UNCHANGED <<phase, closed, tableVars, syncq, sends, ret, herr, ioVars,
                   calls, closeCalls, removed, lookup, watchVars, addrs, lifeVars, sideVars>>

\* An upgrade tunnel that answers a failed dial with 500.
forwardAndProxyTCP_dial500(r, hdrs, dialOk, hijackOk, writeOk) ==
    IF ~dialOk THEN Fail([r EXCEPT !.transport = "dialerr"], 500)
    ELSE IF ~hijackOk THEN Fail([r EXCEPT !.transport = "hijackerr"], 500)
    ELSE IF ~writeOk THEN [r EXCEPT !.pc = "done", !.transport = "writeerr"]
    ELSE [r EXCEPT !.pc = "done", !.transport = "ok", !.fwd = Append(@, hdrs),
                   !.tunnel = TRUE]

\* forwardAndProxyTCP: dial the backend (503 on failure), hijack the client
\* connection (500 on failure), write the request as it came, then copy both
\* ways.
forwardAndProxyTCP(r, hdrs, dialOk, hijackOk, writeOk) ==
    IF ~dialOk THEN Fail([r EXCEPT !.transport = "dialerr"], 503)
    ELSE IF ~hijackOk THEN Fail([r EXCEPT !.transport = "hijackerr"], 500)
    ELSE IF ~writeOk THEN [r EXCEPT !.pc = "done", !.transport = "writeerr"]
    ELSE [r EXCEPT !.pc = "done", !.transport = "ok", !.fwd = Append(@, hdrs),
                   !.tunnel = TRUE]

\* http.DefaultTransport.RoundTrip and what follows it. The transport fails
\* before anything is sent ("dialerr"), or after the request went out
\* ("readerr"), or gives the backend's response.
RoundTrip(r, out, t, resh, withCookie) ==
    CASE t = "dialerr" -> Fail([r EXCEPT !.transport = t], 500)
      [] t = "readerr" -> Fail([r EXCEPT !.transport = t, !.fwd = Append(@, out)], 500)
      [] OTHER ->
           [r EXCEPT
              !.pc = "done", !.transport = "ok", !.fwd = Append(@, out),
              !.resps = Append(@, Response(200,
                          StripResponse(IF withCookie THEN AddCookie(resh, r.newCookie)
                                        ELSE resh)))]

\* httpService.ServeHTTP after the backend is picked: the upgrade branch on
\* "Connection: upgrade", else hop-by-hop headers stripped and RoundTrip.
ServiceServeHTTP(r, t, resh, dialOk, hijackOk, writeOk) ==
    LET hdrs == MapPut(MapPut(r.hdrs, "X-Request-Start", Val_x), "X-Request-Id", Val_x)
    IN  IF ToLower(Get(hdrs, "Connection")) = Val_upgrade
        THEN forwardAndProxyTCP([r EXCEPT !.upgrade = TRUE], hdrs,
                                dialOk, hijackOk, writeOk)
        ELSE RoundTrip(r, StripRequest(hdrs), t, resh, r.path = Path_ServeHTTP)

\* httpService.handle after the backend is connected: Te and
\* Transfer-Encoding deleted, forwarding headers set, the request written to
\* the backend and its response written to the client as it is.
ServiceHandle(r, t, resh, status) ==
    LET h1 == MapPut(MapPut(r.hdrs, "X-Request-Start", Val_x), "X-Request-Id", Val_x)
        h2 == MapDelete(MapDelete(h1, "Te"), "Transfer-Encoding")
        out == MapPut(MapPut(h2, "X-Forwarded-For", Val_x), "X-Forwarded-Proto", Val_x)
    IN  CASE t = "dialerr" -> [r EXCEPT !.pc = "done", !.transport = "writeerr"]
          [] t = "readerr" ->
               Fail([r EXCEPT !.transport = t, !.fwd = Append(@, out)], 502)
          [] OTHER ->
               [r EXCEPT
                  !.pc = "done", !.transport = "ok", !.fwd = Append(@, out),
                  !.resps = Append(@, Response(status, AddCookie(resh, r.newCookie))),
                  !.tunnel = (status = 101)]

\* The request goes to the picked backend and the answer to the client.
Forward(t, resh, status, dialOk, hijackOk, writeOk) ==
    /\ rq.pc = "picked"
    /\ rq' = IF rq.path = Path_handle THEN ServiceHandle(rq, t, resh, status)
             ELSE ServiceServeHTTP(rq, t, resh, dialOk, hijackOk, writeOk)
    /\ UNCHANGED <<phase, closed, tableVars, syncq, sends, ret, herr, ioVars,
                   calls, closeCalls, removed, lookup, watchVars, addrs, lifeVars, sideVars>>

\* What the transport can do and what a backend can answer.
Transports == {"ok", "dialerr", "readerr"}
Statuses == {200, 101}

\* ------------------------------------------------------ request-side specs

ProxyRoutes ==
    { r \in Routes : /\ r.Service = "s1"
                     /\ r.Domain \in {Dom_a_c, Dom_w_b_c} }
ProxyHosts == { Dom_a_c, Dom_a_b_c, <<"c">> }

\* Requests racing with route changes: both ServeHTTP paths, plain and
\* upgrade requests, with and without the marker header.
ProxyHeaders ==
    { h \in ReqHeaders : DOMAIN h \in {{}, {hdrUseStickySessions}, {"Connection", "Upgrade"}} }

NextProxy ==
    \/ Start(TRUE, TRUE, TRUE)
    \/ \E r \in ProxyRoutes : AddRoute(r, TRUE)
    \/ \E r \in ProxyRoutes : RemoveRoute(md5sum(r.Domain), TRUE)
    \/ SyncSet(TRUE)
    \/ SyncRemove
    \/ \E members \in {{}, {"b1"}} : Membership("s1", members)
    \/ \E path \in {Path_ServeHTTP, Path_Plain}, host \in ProxyHosts, h \in ProxyHeaders :
          ListenerServe(path, host, h, NoCookie)
    \/ \E choice \in AllAddrs : PickBackend({}, choice)
    \/ \E choice \in AllAddrs, v \in {"n1"} : PickNewBackendSticky({}, choice, v)
    \/ \E t \in Transports, ok1, ok2, ok3 \in BOOLEAN :
          Forward(t, [n \in {"Content-Type"} |-> Val_x], 200, ok1, ok2, ok3)

SpecProxy == Init /\ [][NextProxy]_vars

\* Sticky selection: a sticky route, a pool that changes, and requests with
\* every kind of _backend cookie, on the shared-transport path and on the
\* raw-connection path.
StickyRoutes == { r \in Routes : r.Domain = Dom_w_b_c }
StickyCookies == {NoCookie} \cup GoodCookies \cup BadCookies

NextSticky ==
    \/ Start(TRUE, TRUE, TRUE)
    \/ \E r \in StickyRoutes : AddRoute(r, TRUE)
    \/ SyncSet(TRUE)
    \/ \E members \in SUBSET AllAddrs : Membership("s1", members)
    \/ \E path \in {Path_ServeHTTP, Path_handle}, cookie \in StickyCookies :
          ListenerServe(path, Dom_a_b_c, EmptyMap, cookie)
    \/ \E up \in SUBSET AllAddrs, choice \in AllAddrs : PickBackend(up, choice)
    \/ \E up \in SUBSET AllAddrs, choice \in AllAddrs, v \in NonceVals :
          PickNewBackendSticky(up, choice, v)
    \/ Forward("ok", [n \in {"Content-Type"} |-> Val_x], 200, TRUE, TRUE, TRUE)

SpecSticky == Init /\ [][NextSticky]_vars

\* Headers: one route with one backend, and requests and responses with
\* every header set, on the three paths.
HeaderRoutes == { r \in Routes : r.Domain = Dom_a_c /\ r.Service = "s1" }

NextHeaders ==
    \/ Start(TRUE, TRUE, TRUE)
    \/ \E r \in HeaderRoutes : AddRoute(r, TRUE)
    \/ SyncSet(TRUE)
    \/ Membership("s1", {"b1"})
    \/ \E path \in {Path_ServeHTTP, Path_handle, Path_Plain}, h \in ReqHeaders :
          ListenerServe(path, Dom_a_c, h, NoCookie)
    \/ PickBackend({"b1"}, "b1")
    \/ PickNewBackendSticky({"b1"}, "b1", "n1")
    \/ \E t \in Transports, resh \in ResHeaders, status \in Statuses,
          ok1, ok2, ok3 \in BOOLEAN :
          Forward(t, resh, status, ok1, ok2, ok3)

SpecHeaders == Init /\ [][NextHeaders]_vars

\* ------------------------------------------------------------ TLS handshake

errMissingTLS == "errMissingTLS"

\* r.keypair: the certificate Set parsed from the route's PEM fields, nil
\* when the route has none.
KeypairOf(r) == [route |-> r.ptr, parsed |-> r.keypair]

\* A callback that answers a miss with no certificate and no error.
certForHandshake_noError(r) ==
    IF r = NilRoute THEN [cert |-> NilCert, err |-> "nil"]
    ELSE [cert |-> KeypairOf(r), err |-> "nil"]

\* certForHandshake, given what findRouteForHost(hello.ServerName) returned.
certForHandshake(r) ==
    IF r = NilRoute THEN [cert |-> NilCert, err |-> errMissingTLS]
    ELSE [cert |-> KeypairOf(r), err |-> "nil"]

\* A TLS handshake with server name name reaches the callback.
Handshake(name) ==
    /\ phase = "running"
    /\ LET c == certForHandshake(findRouteForHost(name))
       IN  hello' = [name |-> name, cert |-> c.cert, err |-> c.err]
    /\ UNCHANGED <<phase, closed, tableVars, syncq, sends, ret, herr, ioVars,
                   calls, closeCalls, removed, lookup, watchVars, rq, addrs, boot, sideVars>>

\* ------------------------------------------------------- Start, step by step

Logged(b, evs) == [b EXCEPT !.log = @ \o evs]

\* Start up to its first receive on started: the maps are made and the sync
\* loop is spawned.
StartCall ==
    /\ phase = "new"
    /\ boot.pc = "new"
    /\ routes' = EmptyMap
    /\ domains' = EmptyMap
    /\ services' = EmptyMap
    /\ boot' = Logged([boot EXCEPT !.pc = "waitSync"], <<"sync">>)
    /\ UNCHANGED <<phase, closed, serviceObjs, nroutes, syncq, sends, ret, herr,
                   ioVars, calls, closeCalls, removed, lookup, watchVars, rq,
                   addrs, hello, sideVars>>

\* The sync loop posts its started signal and Start receives it: an error
\* is returned, nil lets Start spawn listenAndServe.
SyncStarted(ok) ==
    /\ boot.pc = "waitSync"
    /\ IF ok
       THEN /\ boot' = Logged([boot EXCEPT !.pc = "waitListen", !.lpc = "spawned"],
                              <<"sync:ok", "listen">>)
            /\ UNCHANGED phase
       ELSE /\ boot' = Logged([boot EXCEPT !.pc = "done", !.ret = "error"],
                              <<"sync:err">>)
            /\ phase' = "failed"
    /\ UNCHANGED <<closed, tableVars, syncq, sends, ret, herr, ioVars, calls,
                   closeCalls, removed, lookup, watchVars, rq, addrs, hello, sideVars>>

\* listenAndServe: s.listener, err = NewReusablePortListener(...), before the
\* send on started.
ListenBind(ok) ==
    /\ boot.lpc = "spawned"
    /\ boot' = [boot EXCEPT !.lpc = "bound", !.lerr = ~ok, !.listener = ok]
    /\ UNCHANGED <<phase, closed, tableVars, syncq, sends, ret, herr, ioVars,
                   calls, closeCalls, removed, lookup, watchVars, rq, addrs, hello, sideVars>>

\* Start receives the plain listener's signal: on an error it stops the sync
\* loop and returns it, else it reads the listener's address and spawns
\* listenAndServeTLS.
RecvListen ==
    /\ boot.pc = "waitListen"
    /\ boot.lpc = "bound"
    /\ IF boot.lerr
       THEN /\ boot' = Logged([boot EXCEPT !.pc = "done", !.ret = "error", !.lpc = "sent"],
                              <<"listen:err">>)
            /\ stopSyncs' = stopSyncs + 1
            /\ io' = {IO("ds.StopSync", "none")}
            /\ phase' = "failed"
       ELSE /\ boot' = Logged([boot EXCEPT !.pc = "waitTLS", !.lpc = "sent",
                                           !.tpc = "spawned"],
                              <<"listen:ok", "tls">>)
            /\ UNCHANGED <<stopSyncs, io, phase>>
    /\ UNCHANGED <<closed, tableVars, syncq, sends, ret, herr, listenerCloses,
                   tlsListenerCloses, calls, closeCalls, removed, lookup,
                   watchVars, rq, addrs, hello, sideVars>>

\* listenAndServeTLS: l, err := NewReusablePortListener(...), before the send.
TLSBind(ok) ==
    /\ boot.tpc = "spawned"
    /\ boot' = [boot EXCEPT !.tpc = "bound", !.terr = ~ok]
    /\ UNCHANGED <<phase, closed, tableVars, syncq, sends, ret, herr, ioVars,
                   calls, closeCalls, removed, lookup, watchVars, rq, addrs, hello, sideVars>>

\* What Start undoes when the TLS listener fails: one StopSync only.
RollbackTLS_noClose == [stopSyncs |-> 1, listenerCloses |-> 0]

\* What Start undoes when the TLS listener fails: s.ds.StopSync() and
\* s.listener.Close().
RollbackTLS == [stopSyncs |-> 1, listenerCloses |-> 1]

\* Start receives the TLS listener's signal: on an error it stops the sync
\* loop, closes the plain listener and returns the error; else it goes on to
\* read s.tlsListener, which the task assigns after the send.
RecvTLS ==
    /\ boot.pc = "waitTLS"
    /\ boot.tpc = "bound"
    /\ IF boot.terr
       THEN /\ boot' = Logged([boot EXCEPT !.pc = "done", !.ret = "error", !.tpc = "sent"],
                              <<"tls:err">>)
            /\ stopSyncs' = stopSyncs + RollbackTLS.stopSyncs
            /\ listenerCloses' = listenerCloses + RollbackTLS.listenerCloses
            /\ io' = {IO("ds.StopSync", "none"), IO("listener.Close", "none")}
            /\ phase' = "failed"
       ELSE /\ boot' = Logged([boot EXCEPT !.pc = "readTLS", !.tpc = "sent"],
                              <<"tls:ok">>)
            /\ UNCHANGED <<stopSyncs, listenerCloses, io, phase>>
    /\ UNCHANGED <<closed, tableVars, syncq, sends, ret, herr, tlsListenerCloses,
                   calls, closeCalls, removed, lookup, watchVars, rq, addrs, hello, sideVars>>

\* listenAndServeTLS after the send: s.tlsListener = tls.NewListener(l, tlsConfig)
TLSAssign ==
    /\ boot.tpc = "sent"
    /\ ~boot.terr
    /\ boot' = [boot EXCEPT !.tpc = "serving", !.tlsListener = TRUE]
    /\ UNCHANGED <<phase, closed, tableVars, syncq, sends, ret, herr, ioVars,
                   calls, closeCalls, removed, lookup, watchVars, rq, addrs, hello, sideVars>>

\* s.TLSAddr = s.tlsListener.Addr().String(); return nil. The read is not
\* ordered with the task's assignment: it sees the listener only if it is
\* assigned, and may miss it even then; on nil the call panics.
StartReadTLS(seen) ==
    /\ boot.pc = "readTLS"
    /\ seen => boot.tlsListener
    /\ IF seen
       THEN /\ boot' = Logged([boot EXCEPT !.pc = "done", !.ret = "nil"], <<"return nil">>)
            /\ phase' = "running"
       ELSE /\ boot' = Logged([boot EXCEPT !.pc = "done", !.ret = "panic"], <<"panic">>)
            /\ phase' = "failed"
    /\ UNCHANGED <<closed, tableVars, syncq, sends, ret, herr, ioVars, calls,
                   closeCalls, removed, lookup, watchVars, rq, addrs, hello, sideVars>>

\* The listener from Start to the handshakes: Start step by step, routes with
\* and without TLS material, and handshakes for every server name.
TLSRoutes ==
    { r \in Routes : r.Domain \in {Dom_a_c, Dom_w_c} }

NextTLS ==
    \/ StartCall
    \/ \E ok \in BOOLEAN : SyncStarted(ok)
    \/ \E ok \in BOOLEAN : ListenBind(ok)
    \/ RecvListen
    \/ \E ok \in BOOLEAN : TLSBind(ok)
    \/ RecvTLS
    \/ TLSAssign
    \/ \E seen \in BOOLEAN : StartReadTLS(seen)
    \/ \E r \in TLSRoutes : AddRoute(r, TRUE)
    \/ \E r \in TLSRoutes : RemoveRoute(md5sum(r.Domain), TRUE)
    \/ SyncSet(TRUE)
    \/ SyncRemove
    \/ \E name \in Hosts : Handshake(name)

SpecTLS == Init /\ [][NextTLS]_vars

\* ----------------------------------------------------------- upgrade tunnel

Impl_forwardAndProxyTCP == "forwardAndProxyTCP"
Impl_handle == "httpService.handle"

\* The tunnel of the request just forwarded: forwardAndProxyTCP spawns
\* cp(upconn, downconn) and cp(downconn, upconn) and receives on errc; the
\* 101 branch of httpService.handle spawns the copy from the backend to the
\* client and copies from the client to the backend itself. up is the copy
\* towards the backend, down the copy towards the client.
TunnelOpen ==
    /\ rq.pc = "done"
    /\ rq.tunnel
    /\ tun.pc = "idle"
    /\ tun' = [tun EXCEPT
                 !.pc = "copying",
                 !.impl = IF rq.path = Path_handle THEN Impl_handle
                          ELSE Impl_forwardAndProxyTCP,
                 !.up = "running", !.down = "running",
                 !.main = IF rq.path = Path_handle THEN "copy" ELSE "recv"]
    /\ UNCHANGED <<listenerVars, perform, wait, auth, lk, fwd, conn>>

\* One copy completes: its source reached EOF (the peer closed) or one of
\* its connections failed or was closed. In forwardAndProxyTCP the task
\* sends its error on errc (buffered, 2). In handle the spawned copy
\* half-closes the client side and closes done; the handler's own copy
\* half-closes the backend side and goes on to receive on done.
CopyEnds(dir) ==
    /\ tun.pc \in {"copying", "returned"}
    /\ tun[dir] = "running"
    /\ tun' = IF tun.impl = Impl_forwardAndProxyTCP
              THEN [tun EXCEPT ![dir] = "done", !.errc = @ + 1]
              ELSE IF dir = "down"
              THEN [tun EXCEPT !.down = "done", !.done = TRUE]
              ELSE [tun EXCEPT !.up = "done", !.main = "wait"]
    /\ UNCHANGED <<listenerVars, perform, wait, auth, lk, fwd, conn>>

\* Whether the handler can go past what it waits for: forwardAndProxyTCP
\* past <-errc, handle past its own copy and <-done.
CanReturn(t) ==
    IF t.impl = Impl_forwardAndProxyTCP
    THEN t.errc >= 1
    ELSE t.main = "wait" /\ t.done

\* What is closed when the handler returns. forwardAndProxyTCP: the deferred
\* downconn.Close() and upconn.Close(). handle: the deferred serverW.Close(),
\* and, handle having returned true, the deferred conn.Close() of
\* HTTPListener.handle.
Closes == [up |-> TRUE, down |-> TRUE]

\* The handler returns.
TunnelReturn ==
    /\ tun.pc = "copying"
    /\ CanReturn(tun)
    /\ tun' = [tun EXCEPT !.pc = "returned", !.main = "returned",
                          !.upClosed = Closes.up, !.downClosed = Closes.down]
    /\ UNCHANGED <<listenerVars, perform, wait, auth, lk, fwd, conn>>

\* Upgrade requests on the three paths, answered with 101 where the backend's
\* response is read, and the tunnels that follow.
TunnelHeaders == { h \in ReqHeaders : DOMAIN h \in {{}, {"Connection", "Upgrade"}} }

NextTunnel ==
    \/ Start(TRUE, TRUE, TRUE)
    \/ \E r \in HeaderRoutes : AddRoute(r, TRUE)
    \/ SyncSet(TRUE)
    \/ Membership("s1", {"b1"})
    \/ \E path \in {Path_ServeHTTP, Path_handle, Path_Plain}, h \in TunnelHeaders :
          ListenerServe(path, Dom_a_c, h, NoCookie)
    \/ PickBackend({"b1"}, "b1")
    \/ \E status \in Statuses, writeOk \in BOOLEAN :
          Forward("ok", [n \in {"Content-Type"} |-> Val_x], status, TRUE, TRUE, writeOk)
    \/ TunnelOpen
    \/ \E dir \in {"up", "down"} : CopyEnds(dir)
    \/ TunnelReturn

SpecTunnel == Init /\ [][NextTunnel]_vars

\* ------------------------------------------------------- deployment waiter

\* time.After(60 * time.Second) in waitForJobEvents, in seconds.
JobEventsTimeout == 60
\* time.After(5 * time.Second) in Perform, in seconds.
WatcherTimeout == 5

\* Process types of a release, and the jobs whose events arrive.
Types == {"web", "worker"}
Jobs == {"j1", "j2", "j3"}
\* The process type of each job.
JobType(job) == IF job = "j3" THEN "worker" ELSE "web"
JobStates == {"up", "down", "failed"}

\* release.Processes: process type -> service name ("" when none is defined).
Releases ==
    { [t \in {"web"} |-> "web-svc"],
      [t \in {"worker"} |-> ""],
      [t \in Types |-> IF t = "web" THEN "web-svc" ELSE ""],
      [t \in Types |-> IF t = "web" THEN "web-svc" ELSE "worker-svc"] }

\* Perform up to the loop over release.Processes: the strategy is looked up
\* and the release fetched.
PerformCall(release, strategyOk, releaseOk) ==
    /\ perform.pc = "idle"
    /\ perform' = IF ~strategyOk \/ ~releaseOk
                  THEN [perform EXCEPT !.pc = "returned", !.ret = "error"]
                  ELSE [perform EXCEPT !.pc = "loop", !.procs = release,
                                       !.todo = DOMAIN release]
    /\ UNCHANGED <<listenerVars, tun, wait, auth, lk, fwd, conn>>

\* One iteration of the loop starts, in the map's iteration order (any): a
\* type without a service is noted in useJobEvents; for a type with a service
\* a watcher is created, an error of Watch is returned.
PerformNext(typ, watchOk) ==
    /\ perform.pc = "loop"
    /\ typ \in perform.todo
    /\ perform' =
         IF perform.procs[typ] = ""
         THEN [perform EXCEPT !.todo = @ \ {typ}, !.useJobEvents = @ \cup {typ}]
         ELSE IF ~watchOk
         THEN [perform EXCEPT !.pc = "returned", !.ret = "error"]
         ELSE [perform EXCEPT !.pc = "watching", !.cur = typ, !.chan = "open",
                              !.timer = 0, !.waited = 0]
    /\ UNCHANGED <<listenerVars, tun, wait, auth, lk, fwd, conn>>

\* A loop that takes any event for the sentinel.
IsCurrent_any(kind) == TRUE

\* event.Kind == discoverd.EventKindCurrent
IsCurrent(kind) == kind = "current"

\* case event, ok := <-events with ok: a current event ends the inner loop
\* and the forwarding task is spawned; any other event starts the select
\* again, with a new timer.
WatchEvent(kind) ==
    /\ perform.pc = "watching"
    /\ perform.chan = "open"
    /\ perform' =
         IF IsCurrent(kind)
         THEN [perform EXCEPT !.pc = "loop", !.todo = @ \ {perform.cur},
                              !.synced = IF kind = "current"
                                         THEN @ \cup {perform.cur} ELSE @,
                              !.cur = "none", !.timer = 0, !.waited = 0]
         ELSE [perform EXCEPT !.timer = 0, !.consumed = TRUE]
    /\ UNCHANGED <<listenerVars, tun, wait, auth, lk, fwd, conn>>

\* case event, ok := <-events with !ok: the channel was closed.
WatchClosed ==
    /\ perform.pc = "watching"
    /\ perform' = [perform EXCEPT !.pc = "returned", !.ret = "error",
                                  !.chan = "closed"]
    /\ UNCHANGED <<listenerVars, tun, wait, auth, lk, fwd, conn>>

\* One second passes while Perform is in its select.
WatchTick ==
    /\ perform.pc = "watching"
    /\ perform.timer < WatcherTimeout
    /\ perform.waited < MaxWatched
    /\ perform' = [perform EXCEPT !.timer = @ + 1, !.waited = @ + 1]
    /\ UNCHANGED <<listenerVars, tun, wait, auth, lk, fwd, conn>>

\* case <-time.After(5 * time.Second)
WatchTimeout ==
    /\ perform.pc = "watching"
    /\ perform.timer >= WatcherTimeout
    /\ perform' = [perform EXCEPT !.pc = "returned", !.ret = "error"]
    /\ UNCHANGED <<listenerVars, tun, wait, auth, lk, fwd, conn>>

\* After the loop: the job event stream is opened when some type uses job
\* events, and performFunc(deploy) is called.
PerformStrategy(streamOk) ==
    /\ perform.pc = "loop"
    /\ perform.todo = {}
    /\ perform' =
         IF perform.useJobEvents # {} /\ ~streamOk
         THEN [perform EXCEPT !.pc = "returned", !.ret = "error"]
         ELSE [perform EXCEPT !.pc = "strategy", !.invoked = TRUE,
                              !.jobStream = perform.useJobEvents # {}]
    /\ UNCHANGED <<listenerVars, tun, wait, auth, lk, fwd, conn>>

\* The expected counts a strategy waits for.
Expecteds ==
    { [t \in {"web"} |-> [s \in {"up"} |-> 1]],
      [t \in {"worker"} |-> [s \in {"up"} |-> 1]],
      [t \in {"worker"} |-> [s \in {"down"} |-> 1]],
      [t \in Types |-> [s \in {"up"} |-> 1]],
      [t \in {"web"} |-> [s \in {"up"} |-> 2]] }

\* The strategy calls waitForJobEvents(releaseID, expected, log).
WaitCall(want) ==
    /\ perform.pc = "strategy"
    /\ wait.pc = "idle"
    /\ wait' = [wait EXCEPT !.pc = "waiting", !.expected = want]
    /\ UNCHANGED <<listenerVars, tun, perform, auth, lk, fwd, conn>>

\* actual[typ][state], 0 when absent.
CountOf(m, typ, state) ==
    IF typ \in DOMAIN m /\ state \in DOMAIN m[typ] THEN m[typ][state] ELSE 0

\* jobEventsEqual(expected, actual)
jobEventsEqual(want, actual) ==
    \A typ \in DOMAIN want :
        /\ typ \in DOMAIN actual
        /\ \A state \in DOMAIN want[typ] :
              CountOf(actual, typ, state) = want[typ][state]

\* if _, ok := actual[typ]; !ok { actual[typ] = make(map[string]int) }
Touch(actual, typ) ==
    IF typ \in DOMAIN actual THEN actual ELSE MapPut(actual, typ, EmptyMap)

Bump(m, k) == MapPut(m, k, (IF k \in DOMAIN m THEN m[k] ELSE 0) + 1)

\* A handleEvent that does not look at sentEvents.
handleEvent_noDedup(w, jobID, typ, state) ==
    [w EXCEPT
       !.sentEvents = @ \cup {<<jobID, state>>},
       !.actual = MapPut(Touch(@, typ), typ, Bump(Touch(@, typ)[typ], state)),
       !.counted = Bump(@, <<jobID, state>>),
       !.emitted = Bump(@, <<jobID, state>>)]

\* handleEvent: nothing for a (job ID, state) pair already sent; else the
\* pair is noted, actual[typ][state] goes up by one and a deployment event is
\* sent on d.deployEvents.
handleEvent(w, jobID, typ, state) ==
    IF <<jobID, state>> \in w.sentEvents
    THEN [w EXCEPT !.dup = TRUE]
    ELSE [w EXCEPT
            !.sentEvents = @ \cup {<<jobID, state>>},
            !.actual = MapPut(Touch(@, typ), typ, Bump(Touch(@, typ)[typ], state)),
            !.counted = Bump(@, <<jobID, state>>),
            !.emitted = Bump(@, <<jobID, state>>)]

\* The select is entered again: a new 60-second timer.
Continue(w) == [w EXCEPT !.timer = 0]

Return(w, r) == [w EXCEPT !.pc = "returned", !.ret = r]

\* return nil when the counts are reached, else the next select.
Settle(w) ==
    IF jobEventsEqual(w.expected, w.actual) THEN Return(w, "nil") ELSE Continue(w)

\* A service event as the forwarding task hands it over: whether its
\* FLYNN_APP_ID and FLYNN_RELEASE_ID are there and match, its process type
\* and job ID ("none" when the key is missing), and its kind.
AllServiceEvents ==
    [app : BOOLEAN, release : BOOLEAN, typ : Types \cup {"none"},
     job : Jobs \cup {"none"}, kind : {"up", "down"}]

\* The events with every key in place, and one event for each missing or
\* foreign key.
ServiceEvents ==
    { ev \in AllServiceEvents :
        \/ ev.app /\ ev.release /\ ev.job # "none" /\ ev.typ = JobType(ev.job)
        \/ /\ ev.kind = "up"
           /\ \/ ~ev.app /\ ev.release /\ ev.typ = "web" /\ ev.job = "j1"
              \/ ev.app /\ ~ev.release /\ ev.typ = "web" /\ ev.job = "j1"
              \/ ev.app /\ ev.release /\ ev.typ = "none" /\ ev.job = "j1"
              \/ ev.app /\ ev.release /\ ev.typ = "web" /\ ev.job = "none" }

\* case event := <-d.serviceEvents
OnServiceEvent(w, useJobEvents, ev) ==
    IF ~ev.app \/ ~ev.release \/ ev.typ = "none" \/ ev.typ \in useJobEvents
       \/ ev.job = "none"
    THEN Continue(w)
    ELSE Settle(IF ev.kind = "up" THEN handleEvent(w, ev.job, ev.typ, "up") ELSE w)

\* An IsDown that knows one state only.
IsDown_onlyDown(state) == state = "down"

\* JobEvent.IsDown
IsDown(state) == state \in {"down", "crashed", "failed"}

\* A job event: whether it is of the awaited release, its type, job and state.
AllJobEvents ==
    [release : BOOLEAN, typ : Types, job : Jobs,
     state : {"starting", "up", "down", "crashed", "failed"}]

\* The events of the awaited release, and one of another release.
JobEvents ==
    { ev \in AllJobEvents :
        /\ ev.typ = JobType(ev.job)
        /\ ev.release \/ (ev.job = "j1" /\ ev.state = "down") }

\* case event, ok := <-d.jobEvents with ok
OnJobEvent(w, useJobEvents, ev) ==
    IF ~ev.release THEN Continue(w)
    ELSE IF ev.typ \notin useJobEvents /\ ev.state = "up" THEN Continue(w)
    ELSE IF /\ ev.typ \notin useJobEvents
            /\ CountOf(w.expected, ev.typ, "up") > 0
            /\ IsDown(ev.state)
    THEN Return(handleEvent(w, ev.job, ev.typ, "down"), "failed to start")
    ELSE LET w1 == [w EXCEPT !.actual = Touch(@, ev.typ)]
         IN  CASE ev.state = "up" -> Settle(handleEvent(w1, ev.job, ev.typ, "up"))
               [] ev.state \in {"down", "crashed"} ->
                    Settle(handleEvent(w1, ev.job, ev.typ, "down"))
               [] ev.state = "failed" ->
                    Return(handleEvent(w1, ev.job, ev.typ, "failed"), "job failed")
               [] OTHER -> Settle(w1)

\* What the last received event was, for the claims about single events.
Seen(w, src, ev) == [w EXCEPT !.last = [src |-> src, ev |-> ev]]

ServiceEvent(ev) ==
    /\ wait.pc = "waiting"
    /\ wait' = Seen(OnServiceEvent(wait, perform.useJobEvents, ev), "service", ev)
    /\ UNCHANGED <<listenerVars, tun, perform, auth, lk, fwd, conn>>

\* d.jobEvents is nil, and never ready, unless Perform opened the stream.
JobEvent(ev) ==
    /\ wait.pc = "waiting"
    /\ perform.jobStream
    /\ wait' = Seen(OnJobEvent(wait, perform.useJobEvents, ev), "job", ev)
    /\ UNCHANGED <<listenerVars, tun, perform, auth, lk, fwd, conn>>

\* case event, ok := <-d.jobEvents with !ok
JobsClosed ==
    /\ wait.pc = "waiting"
    /\ perform.jobStream
    /\ wait' = Seen(Return(wait, "nil"), "closed", <<>>)
    /\ UNCHANGED <<listenerVars, tun, perform, auth, lk, fwd, conn>>

\* One second passes while waitForJobEvents is in its select.
WaitTick ==
    /\ wait.pc = "waiting"
    /\ wait.timer < JobEventsTimeout
    /\ wait.elapsed < MaxElapsed
    /\ wait' = [wait EXCEPT !.timer = @ + 1, !.elapsed = @ + 1]
    /\ UNCHANGED <<listenerVars, tun, perform, auth, lk, fwd, conn>>

\* case <-time.After(60 * time.Second)
WaitTimeout ==
    /\ wait.pc = "waiting"
    /\ wait.timer >= JobEventsTimeout
    /\ wait' = Return(wait, "timed out")
    /\ UNCHANGED <<listenerVars, tun, perform, auth, lk, fwd, conn>>

\* The strategy returns what waitForJobEvents returned, and Perform with it.
PerformReturn ==
    /\ perform.pc = "strategy"
    /\ wait.pc = "returned"
    /\ perform' = [perform EXCEPT !.pc = "returned",
                                  !.ret = IF wait.ret = "nil" THEN "nil" ELSE "error"]
    /\ UNCHANGED <<listenerVars, tun, wait, auth, lk, fwd, conn>>

PerformSteps(R) ==
    \/ \E release \in R, ok1, ok2 \in BOOLEAN : PerformCall(release, ok1, ok2)
    \/ \E typ \in Types, ok \in BOOLEAN : PerformNext(typ, ok)
    \/ \E kind \in {"up", "down", "current"} : WatchEvent(kind)
    \/ WatchClosed
    \/ WatchTick
    \/ WatchTimeout
    \/ \E ok \in BOOLEAN : PerformStrategy(ok)
    \/ PerformReturn

\* A deployment with every event.
NextDeploy ==
    \/ PerformSteps(Releases)
    \/ \E want \in Expecteds : WaitCall(want)
    \/ \E ev \in ServiceEvents : ServiceEvent(ev)
    \/ \E ev \in JobEvents : JobEvent(ev)
    \/ JobsClosed

SpecDeploy == Init /\ [][NextDeploy]_vars

\* A deployment against the clock: one job, and events that do not complete
\* the wait.
TimedReleases == { r \in Releases : DOMAIN r = Types /\ r["web"] # "" /\ r["worker"] = "" }
TimedExpecteds == { e \in Expecteds : DOMAIN e = {"web"} /\ e["web"]["up"] = 2 }
TimedServiceEvents ==
    { ev \in ServiceEvents :
        ev.job = "j1" /\ ev.typ = "web" /\ ev.app /\ ev.release /\ ev.kind = "up" }
TimedJobEvents ==
    { ev \in JobEvents :
        ev.job = "j3" /\ ev.release /\ ev.state = "starting" }

NextDeployTime ==
    \/ PerformSteps(TimedReleases)
    \/ \E want \in TimedExpecteds : WaitCall(want)
    \/ \E ev \in TimedServiceEvents : ServiceEvent(ev)
    \/ \E ev \in TimedJobEvents : JobEvent(ev)
    \/ JobsClosed
    \/ WaitTick
    \/ WaitTimeout

SpecDeployTime == Init /\ [][NextDeployTime]_vars

\* ----------------------------------------------------------- specification

Events ==
    { [Event |-> "set", ID |-> r.Domain] : r \in Routes }
    \cup { [Event |-> "remove", ID |-> id] : id \in RouteIDs }

\* ---------------------------------------------------------------------------
\* The event-forwarding tasks of Perform.
\* ---------------------------------------------------------------------------

\* The types whose forwarding task is in `event, ok := <-events`: spawned
\* after the type's current event, holding no event, not ended.
Receiving == perform.synced \ (fwd.sending \cup fwd.ended)

\* Perform has returned and its deferred stream.Close() calls have run, which
\* closes the events channel of every watcher.
StreamsClosed == perform.pc = "returned"

\* event, ok := <-events with ok: the task now holds an event and is in
\* deploy.serviceEvents <- event.
ForwardRecv(typ) ==
    /\ typ \in Receiving
    /\ ~StreamsClosed
    /\ fwd' = [fwd EXCEPT !.sending = @ \cup {typ}]
    /\ UNCHANGED <<listenerVars, tun, perform, wait, auth, lk, conn>>

\* event, ok := <-events with !ok: the task returns.
ForwardClosed(typ) ==
    /\ typ \in Receiving
    /\ StreamsClosed
    /\ fwd' = [fwd EXCEPT !.ended = @ \cup {typ}]
    /\ UNCHANGED <<listenerVars, tun, perform, wait, auth, lk, conn>>

\* The send on the unbuffered serviceEvents channel meets the receive in
\* waitForJobEvents' select; the task goes back to its receive.
ForwardSend(typ, ev) ==
    /\ typ \in fwd.sending
    /\ wait.pc = "waiting"
    /\ wait' = Seen(OnServiceEvent(wait, perform.useJobEvents, ev), "service", ev)
    /\ fwd' = [fwd EXCEPT !.sending = @ \ {typ}]
    /\ UNCHANGED <<listenerVars, tun, perform, auth, lk, conn>>

NextForward ==
    \/ PerformSteps(Releases)
    \/ \E want \in TimedExpecteds : WaitCall(want)
    \/ \E typ \in Types : ForwardRecv(typ)
    \/ \E typ \in Types : ForwardClosed(typ)
    \/ \E typ \in Types, ev \in TimedServiceEvents : ForwardSend(typ, ev)
    \/ \E ev \in TimedJobEvents : JobEvent(ev)
    \/ JobsClosed

SpecForward == Init /\ [][NextForward]_vars

\* ---------------------------------------------------------------------------
\* A persistent client connection served by HTTPListener.handle.
\* ---------------------------------------------------------------------------

\* Requests read from one connection.
MaxRequests == 2

\* What backend.Read(req) returns: a response or none, and an error or nil.
\* A response comes with a nil error or with ErrPersistEOF (the backend asked
\* for this to be its last request); without a response the error is io.EOF
\* (the backend closed without answering) or some other read error.
BackendReads ==
    { [res |-> st, err |-> e] : st \in {200, 101}, e \in {"nil", "ErrPersistEOF"} }
    \cup { [res |-> 0, err |-> e] : e \in {"EOF", "other"} }

\* httpService.handle: the responses it writes to the client and the value
\* it returns (true: the caller returns and closes the connection).
\*   connected: getBackend found a backend;  wrote: backend.Write succeeded;
\*   read: what backend.Read returned;  sent: sc.Write succeeded.
serviceHandle(connected, wrote, read, sent) ==
    IF ~connected THEN [resps |-> <<503>>, done |-> FALSE]
    ELSE IF ~wrote THEN [resps |-> <<>>, done |-> TRUE]
    ELSE IF read.res # 0 /\ ~sent THEN [resps |-> <<>>, done |-> TRUE]
    ELSE LET first == IF read.res # 0 THEN <<read.res>> ELSE <<>>
         IN  IF read.err # "nil"
             THEN IF read.err \notin {"EOF", "ErrPersistEOF"}
                  THEN [resps |-> Append(first, 502), done |-> FALSE]
                  ELSE [resps |-> first, done |-> FALSE]
             ELSE [resps |-> first, done |-> read.res = 101]

\* One pass of the loop of HTTPListener.handle after sc.Read gave a request:
\* 404 and continue when no route matches, else the service's handle.
listenerHandle(found, connected, wrote, read, sent) ==
    IF ~found THEN [resps |-> <<404>>, done |-> FALSE]
    ELSE serviceHandle(connected, wrote, read, sent)

\* The listener accepts a connection and handle starts its loop.
ConnAccept ==
    /\ conn.pc = "none"
    /\ conn' = [conn EXCEPT !.pc = "reading"]
    /\ UNCHANGED <<listenerVars, tun, perform, wait, auth, lk, fwd>>

\* sc.Read returns a request and the pass runs to the next sc.Read, or to
\* the return and the deferred conn.Close().
ConnRequest(found, connected, wrote, read, sent) ==
    /\ conn.pc = "reading"
    /\ Len(conn.log) < MaxRequests
    /\ LET out == listenerHandle(found, connected, wrote, read, sent)
       IN  conn' = [pc |-> IF out.done THEN "closed" ELSE "reading",
                    log |-> Append(conn.log,
                                   [found |-> found, read |-> read,
                                    resps |-> out.resps, done |-> out.done])]
    /\ UNCHANGED <<listenerVars, tun, perform, wait, auth, lk, fwd>>

\* sc.Read returns an error: handle returns and the connection is closed.
ConnReadError ==
    /\ conn.pc = "reading"
    /\ conn' = [conn EXCEPT !.pc = "closed"]
    /\ UNCHANGED <<listenerVars, tun, perform, wait, auth, lk, fwd>>

NextConn ==
    \/ ConnAccept
    \/ \E found, connected, wrote, sent \in BOOLEAN, read \in BackendReads :
          ConnRequest(found, connected, wrote, read, sent)
    \/ ConnReadError

SpecConn == Init /\ [][NextConn]_vars

\* ---------------------------------------------------------------------------
\* The management handler: muxHandler and parseBasicAuth.
\* ---------------------------------------------------------------------------

\* Longest decoded credentials text of an Authorization header.
MaxCred == 3

Chars == {"a", "b", ":"}

RECURSIVE Texts(_)
\* The texts of at most n characters.
Texts(n) ==
    IF n = 0 THEN {<<>>}
    ELSE LET shorter == Texts(n - 1)
         IN shorter \cup {Append(t, c) : t \in {u \in shorter : Len(u) = n - 1}, c \in Chars}

\* The keys the controller is configured with: AUTH_KEY from the environment,
\* empty when the variable is not set.
AuthKeys == {<<>>, <<"a">>, <<"a", "b">>}

EventStream == "text/event-stream"

\* The Authorization header as strings.SplitN(h.Get("Authorization"), " ", 2)
\* sees it: one part (no header, or no space in it) or a scheme and a rest,
\* the rest being base64 of a text or not base64 at all.
AuthHeaders ==
    {[parts |-> 1, scheme |-> "", b64 |-> FALSE, text |-> <<>>]}
    \cup {[parts |-> 2, scheme |-> sch, b64 |-> FALSE, text |-> <<>>] :
             sch \in {"Basic", "Bearer"}}
    \cup {[parts |-> 2, scheme |-> sch, b64 |-> TRUE, text |-> t] :
             sch \in {"Basic", "Bearer"}, t \in Texts(MaxCred)}

\* The requests: method, path, Authorization and Accept headers, and the key
\* parameter of the query (empty when there is none: Query().Get).
AuthRequests ==
    [method : {"GET", "OPTIONS"},
     path : {"/ping", "/apps"},
     authorization : AuthHeaders,
     accept : {<<>>, <<"application/json">>, <<EventStream>>,
               <<"text/html", EventStream>>},
     key : {<<>>, <<"a">>, <<"b">>, <<"a", "b">>}]

\* Position of the first colon of t, 0 when there is none.
FirstColon(t) ==
    IF \E i \in 1..Len(t) : t[i] = ":"
    THEN CHOOSE i \in 1..Len(t) : t[i] = ":" /\ \A j \in 1..(i - 1) : t[j] # ":"
    ELSE 0

BasicAuthError == [username |-> <<>>, password |-> <<>>, err |-> TRUE]

parseBasicAuth(h) ==
    IF h.parts # 2 THEN BasicAuthError
    ELSE IF h.scheme # "Basic" THEN BasicAuthError
    ELSE IF ~h.b64 THEN BasicAuthError
    ELSE LET i == FirstColon(h.text)
         IN IF i = 0 THEN BasicAuthError
            ELSE [username |-> SubSeq(h.text, 1, i - 1),
                  password |-> SubSeq(h.text, i + 1, Len(h.text)),
                  err |-> FALSE]

\* strings.Contains(r.Header.Get("Accept"), "text/event-stream")
AcceptsEventStream(r) == \E i \in 1..Len(r.accept) : r.accept[i] = EventStream

\* subtle.ConstantTimeCompare: 1 for equal byte strings, 0 otherwise.
ConstantTimeCompare(x, y) ==
    IF Len(x) # Len(y) THEN 0
    ELSE IF \A i \in 1..Len(x) : x[i] = y[i] THEN 1 ELSE 0

\* The handler muxHandler returns, applied to one request: the status it
\* writes itself (0 when it leaves the response to main) and whether it
\* called main.ServeHTTP.
muxServe(authKey, r) ==
    IF r.path = "/ping" \/ r.method = "OPTIONS"
    THEN [status |-> 200, served |-> FALSE]
    ELSE LET basic == parseBasicAuth(r.authorization).password
             password == IF basic = <<>> /\ AcceptsEventStream(r)
                         THEN r.key ELSE basic
         IN IF Len(password) # Len(authKey)
               \/ ConstantTimeCompare(password, authKey) # 1
            THEN [status |-> 401, served |-> FALSE]
            ELSE [status |-> 0, served |-> TRUE]

\* appHandler builds the handler with the configured key.
muxHandler(authKey) ==
    /\ auth.pc = "none"
    /\ auth' = [pc |-> "ready", key |-> authKey]
    /\ UNCHANGED <<listenerVars, tun, perform, wait, lk, fwd, conn>>

\* The handler serves a request.
muxServeHTTP(r) ==
    /\ auth.pc = "ready"
    /\ LET out == muxServe(auth.key, r)
       IN auth' = [pc |-> "done", key |-> auth.key, req |-> r,
                   status |-> out.status, served |-> out.served]
    /\ UNCHANGED <<listenerVars, tun, perform, wait, lk, fwd, conn>>

NextAuth ==
    \/ \E k \in AuthKeys : muxHandler(k)
    \/ \E r \in AuthRequests : muxServeHTTP(r)

SpecAuth == Init /\ [][NextAuth]_vars

\* ---------------------------------------------------------------------------
\* The route-table lock, step by step: API calls, Close and the sync loop.
\* ---------------------------------------------------------------------------

\* sync.RWMutex: Lock waits until no reader and no writer holds the mutex;
\* RLock waits while a writer holds it or is waiting for it.
CanLock(l) == l.w = "none" /\ l.r = {}
CanRLock(l) == l.w = "none" /\ l.pending = {}

LockStep(l) ==
    /\ lk' = l
    /\ UNCHANGED <<listenerVars, tun, perform, wait, auth, fwd, conn>>

\* AddRoute, SetRoute, RemoveRoute: s.mtx.RLock()
ApiRLock(c) ==
    /\ lk.api[c] = "idle"
    /\ CanRLock(lk)
    /\ LockStep([lk EXCEPT !.r = @ \cup {c}, !.api[c] = "held"])

\* ... the closed test, the store call, and the deferred RUnlock. The
\* store commits the operation and returns; the sync loop hands it to the
\* handler later.
ApiReturn(c) ==
    /\ lk.api[c] = "held"
    /\ LockStep([lk EXCEPT
                   !.r = @ \ {c}, !.api[c] = "done",
                   !.ret[c] = IF lk.closed THEN "ErrClosed" ELSE "nil",
                   !.q = IF lk.closed THEN @ ELSE @ + 1])

\* Close: s.mtx.Lock() is called
CloseLock ==
    /\ lk.close = "idle"
    /\ LockStep([lk EXCEPT !.close = "lock", !.pending = @ \cup {"Close"}])

\* ... and acquired
CloseAcquire ==
    /\ lk.close = "lock"
    /\ CanLock(lk)
    /\ LockStep([lk EXCEPT !.close = "held", !.w = "Close", !.pending = @ \ {"Close"}])

\* ... the discovery handles and both listeners are closed, s.ds.StopSync()
\* is called
CloseStopSync ==
    /\ lk.close = "held"
    /\ LockStep([lk EXCEPT !.close = "StopSync", !.stop = TRUE,
                           !.blocked = @ \/ lk.sync = "lock"])

\* A StopSync that returns only when the sync loop has ended.
StopSyncReturns_joins(l) == l.sync = "exited"

\* StopSync tells the sync loop to end and returns.
StopSyncReturns(l) == TRUE

\* ... StopSync returns, s.closed = true, the deferred Unlock runs
CloseReturn ==
    /\ lk.close = "StopSync"
    /\ StopSyncReturns(lk)
    /\ LockStep([lk EXCEPT !.close = "returned", !.closed = TRUE, !.w = "none"])

\* The sync loop ends once StopSync was called.
SyncExit ==
    /\ lk.sync = "loop"
    /\ lk.stop
    /\ LockStep([lk EXCEPT !.sync = "exited"])

\* The sync loop takes the next committed operation and calls the handler,
\* whose first statement is h.l.mtx.Lock().
SyncCallback ==
    /\ lk.sync = "loop"
    /\ lk.q > 0
    /\ LockStep([lk EXCEPT !.sync = "lock", !.q = @ - 1, !.pending = @ \cup {"sync"}])

SyncAcquire ==
    /\ lk.sync = "lock"
    /\ CanLock(lk)
    /\ LockStep([lk EXCEPT !.sync = "held", !.w = "sync", !.pending = @ \ {"sync"}])

\* The handler's Set or Remove runs and returns; the deferred Unlock runs.
SyncHandlerReturn ==
    /\ lk.sync = "held"
    /\ LockStep([lk EXCEPT !.sync = "loop", !.w = "none"])

ApiSteps == \E c \in Callers : ApiRLock(c) \/ ApiReturn(c)
CloseSteps == CloseLock \/ CloseAcquire \/ CloseStopSync \/ CloseReturn
SyncSteps == SyncExit \/ SyncCallback \/ SyncAcquire \/ SyncHandlerReturn

NextLock ==
    \/ \E c \in Callers : ApiRLock(c)
    \/ \E c \in Callers : ApiReturn(c)
    \/ CloseLock
    \/ CloseAcquire
    \/ CloseStopSync
    \/ CloseReturn
    \/ SyncExit
    \/ SyncCallback
    \/ SyncAcquire
    \/ SyncHandlerReturn

\* Every goroutine that can take a step is scheduled in the end, and a Close
\* that has been called is carried out.
SpecLock ==
    /\ Init
    /\ [][NextLock]_vars
    /\ WF_vars(ApiSteps)
    /\ WF_vars(CloseAcquire \/ CloseStopSync \/ CloseReturn)
    /\ WF_vars(SyncSteps)

Next ==
    \/ \E a, b, c \in BOOLEAN : Start(a, b, c)
    \/ \E r \in Routes, dsOk \in BOOLEAN : AddRoute(r, dsOk)
    \/ \E r \in Routes, dsOk \in BOOLEAN : SetRoute(r, dsOk)
    \/ \E id \in RouteIDs, dsOk \in BOOLEAN : RemoveRoute(id, dsOk)
    \/ \E nssOk \in BOOLEAN : SyncSet(nssOk)
    \/ SyncRemove
    \/ \E ev \in Events : Send(ev)
    \/ Close

Spec == Init /\ [][Next]_vars

\* The lookups: requests against the tables that routes added and removed
\* through the write API produce.
LookupRoutes == { r \in Routes : r.TLSCert = "" }

NextLookup ==
    \/ Start(TRUE, TRUE, TRUE)
    \/ \E r \in LookupRoutes : AddRoute(r, TRUE)
    \/ \E r \in LookupRoutes : RemoveRoute(md5sum(r.Domain), TRUE)
    \/ SyncSet(TRUE)
    \/ SyncRemove
    \/ \E ev \in Events : Send(ev)
    \/ \E host \in Hosts : ServeHTTP(host)

SpecLookup == Init /\ [][NextLookup]_vars

\* The event bus: subscribers of the watch manager beside the write API and
\* the sync handler.
Subs == {"w1", "w2"}
EventRoutes == { r \in Routes : r.Domain \in {Dom_a_c, Dom_w_c} /\ r.Service = "s1" }

Bus(S) ==
    \/ Start(TRUE, TRUE, TRUE)
    \/ \E s \in S : Watch(s)
    \/ \E s \in S : Unwatch(s)
    \/ \E r \in EventRoutes : AddRoute(r, TRUE)
    \/ \E r \in EventRoutes : RemoveRoute(md5sum(r.Domain), TRUE)
    \/ \E nssOk \in BOOLEAN : SyncSet(nssOk)
    \/ SyncRemove
    \/ \E ev \in Events : Send(ev)
    \/ \E s \in S : Recv(s)

NextEvents == Bus(Subs)

SpecEvents == Init /\ [][NextEvents]_vars

\* One subscriber that waits for its events, as the tests' waitForEvent does.
\* The scheduler runs every started task in the end: the sync loop, the
\* spawned Send tasks and the subscriber reading its channel.
Waiter == {"w1"}

NextWait == Bus(Waiter)

SpecEventsFair ==
    /\ Init
    /\ [][NextWait]_vars
    /\ WF_vars(\E nssOk \in BOOLEAN : SyncSet(nssOk))
    /\ WF_vars(SyncRemove)
    /\ WF_vars(\E ev \in Events : Send(ev))
    /\ WF_vars(\E s \in Waiter : Recv(s))

\* ------------------------------------------------------- claim vocabulary

\* All the dot-separated labels of a string.
Labels(s) == SplitN(s, ".", Len(s) + 1)

\* The suffix of a host made of its labels from the k-th on.
SuffixFrom(s, k) == Join(SubSeq(Labels(s), k, Len(Labels(s))), <<".">>)

Wild(suffix) == <<"*", ".">> \o suffix

CasePairs == { {"a", "A"}, {"b", "B"}, {"c", "C"} }

\* Two strings that differ only in letter case.
SameFold(s, t) ==
    /\ Len(s) = Len(t)
    /\ \A i \in 1..Len(s) : s[i] = t[i] \/ {s[i], t[i]} \in CasePairs

\* The routes of the id map that link to the service object ref.
RoutesOf(ref) == { id \in DOMAIN routes : routes[id].service = ref }

\* ------------------------------------------------------------------ claims

\* C1: each service entry's refs equals the number of routes in the id map
\* whose service link is that entry.
C1_RefsEqualRouteCount ==
    \A n \in DOMAIN services :
        serviceObjs[services[n]].refs = Cardinality(RoutesOf(services[n]))

\* C2: the id map and the domain map hold the same routes: every route of the
\* id map is the value of the domain map under its lowercased domain, and
\* every route of the domain map is in the id map.
C2_MapsAgree ==
    /\ \A id \in DOMAIN routes :
          /\ ToLower(routes[id].Domain) \in DOMAIN domains
          /\ domains[ToLower(routes[id].Domain)] = routes[id]
    /\ \A k \in DOMAIN domains :
          \E id \in DOMAIN routes : routes[id] = domains[k]

\* C3: once Remove(id) has returned nil, no lookup by the removed route's
\* domain, in any letter case, returns that route.
C3_RemovedNotFound ==
    \A r \in removed :
        \A h \in Hosts :
            SameFold(h, r.Domain) => findRouteForHost(h) # r

\* C4: for a wildcard key *.suffix of the table and a host a.b.suffix, the
\* lookup returns that wildcard's route if and only if the table has no exact
\* key for the host and no wildcard key with a longer suffix (*.b.suffix,
\* *.a.b.suffix).
C4_WildcardIffNoMoreSpecific ==
    \A host \in Hosts :
        LET h == ToLower(host)
        IN  (Len(Labels(h)) >= 3 /\ Wild(SuffixFrom(h, 3)) \in DOMAIN domains)
            => ( findRouteForHost(host) = domains[Wild(SuffixFrom(h, 3))]
                 <=> ( /\ h \notin DOMAIN domains
                       /\ Wild(h) \notin DOMAIN domains
                       /\ Wild(SuffixFrom(h, 2)) \notin DOMAIN domains ) )

\* C4 witness: a.b.c was looked up and got the route of *.c.
C4_Witness ==
    /\ lookup.done
    /\ lookup.host = <<"a", ".", "b", ".", "c">>
    /\ Dom_w_c \in DOMAIN domains
    /\ lookup.result = domains[Dom_w_c]

\* C5: for a host of 6 or more labels the lookup still finds the shorter
\* wildcards (such as "*." + the last label) when nothing more specific is in
\* the table, and never matches a wildcard key deeper than 5 levels.
C5_DepthCap ==
    \A host \in Hosts :
        LET h == ToLower(host)
            n == Len(Labels(h))
            res == findRouteForHost(host)
        IN  n >= 6 =>
            /\ ( /\ Wild(SuffixFrom(h, n)) \in DOMAIN domains
                 /\ h \notin DOMAIN domains
                 /\ \A k \in 1..(n - 1) : Wild(SuffixFrom(h, k)) \notin DOMAIN domains )
               => res = domains[Wild(SuffixFrom(h, n))]
            /\ \A k \in 1..n :
                  ( /\ h \notin DOMAIN domains
                    /\ Wild(SuffixFrom(h, k)) \in DOMAIN domains
                    /\ res = domains[Wild(SuffixFrom(h, k))] )
                  => n - k + 1 <= 5

\* C6: two hosts that differ only in letter case get the same lookup result.
C6_CaseInsensitive ==
    \A h1, h2 \in Hosts :
        SameFold(h1, h2) => findRouteForHost(h1) = findRouteForHost(h2)

\* C6 witness: an uppercase host was looked up and got a route that was Set
\* with an uppercase domain.
C6_Witness ==
    /\ lookup.done
    /\ lookup.host = <<"A", ".", "C">>
    /\ lookup.result # NilRoute
    /\ lookup.result.Domain = Dom_A_c

\* The route data is what the id map already holds under its ID.
AlreadyApplied(data) ==
    /\ data.ID \in DOMAIN routes
    /\ routes[data.ID].Domain = data.Domain
    /\ routes[data.ID].Service = data.Service
    /\ routes[data.ID].Sticky = data.Sticky
    /\ routes[data.ID].keypair = (data.TLSCert # "" /\ data.TLSKey # "")

\* A route object without its address.
Content(r) == [ID |-> r.ID, Domain |-> r.Domain, Service |-> r.Service,
               Sticky |-> r.Sticky, keypair |-> r.keypair, service |-> r.service]

\* C7: AddRoute and SetRoute of routes with the same domain compute the same
\* ID, and applying a route that the table already holds leaves the table (id
\* map, domain map, service entries and refcounts) as it was after applying
\* it once.
C7_SetIdempotent ==
    [][ ( /\ ~closed
          /\ syncq # <<>>
          /\ Head(syncq).op = "set"
          /\ AlreadyApplied(Head(syncq).data)
          /\ \E nssOk \in BOOLEAN : SyncSet(nssOk) )
        => ( /\ \A r1, r2 \in Routes :
                   r1.Domain = r2.Domain => WithID(r1).ID = WithID(r2).ID
             /\ DOMAIN routes' = DOMAIN routes
             /\ \A id \in DOMAIN routes : Content(routes'[id]) = Content(routes[id])
             /\ DOMAIN domains' = DOMAIN domains
             /\ \A k \in DOMAIN domains : Content(domains'[k]) = Content(domains[k])
             /\ services' = services
             /\ serviceObjs' = serviceObjs ) ]_vars

\* C8: a service entry is created by the first Set that references its name
\* and destroyed exactly when its refs reaches zero: before Close no entry with
\* refs above zero is closed, every entry at zero is closed and out of the
\* services map, and no entry stays in the services map once no route
\* references it.
C8_ServiceLifecycle ==
    ~closed =>
        /\ \A id \in DOMAIN routes :
              /\ routes[id].Service \in DOMAIN services
              /\ services[routes[id].Service] = routes[id].service
        /\ \A ref \in DOMAIN serviceObjs :
              /\ serviceObjs[ref].refs > 0 => serviceObjs[ref].closes = 0
              /\ serviceObjs[ref].refs <= 0 =>
                    /\ serviceObjs[ref].closes = 1
                    /\ \A n \in DOMAIN services : services[n] # ref
        /\ \A n \in DOMAIN services : RoutesOf(services[n]) # {}

\* C9: once Close has returned, every AddRoute, SetRoute and RemoveRoute call
\* returns ErrClosed and does not invoke the route store.
C9_ClosedRejects ==
    [][ (closed /\ calls' = calls + 1)
        => (ret' = "ErrClosed" /\ syncq' = syncq) ]_vars

\* C9 witness: an API call made after Close returned ErrClosed.
C9_Witness ==
    /\ closed
    /\ calls > 0
    /\ ret = "ErrClosed"

\* C10: a second Close has no further effect: no discovery handle is closed a
\* second time, the listeners are not closed again, StopSync is not invoked
\* again, and the listener stays closed.
C10_CloseIdempotent ==
    /\ listenerCloses <= 1
    /\ tlsListenerCloses <= 1
    /\ stopSyncs <= 1
    /\ \A ref \in DOMAIN serviceObjs : serviceObjs[ref].closes <= 1
    /\ closeCalls > 0 => closed

\* C11: for one route id, a subscriber never observes two events in the order
\* opposite to the one in which the sync handler applied their operations.
IdOf(ev) == IF ev.Event = "set" THEN md5sum(ev.ID) ELSE ev.ID

Positions(seq, ev) == { i \in 1..Len(seq) : seq[i] = ev }

Inverted(s, a, b) ==
    /\ a # b
    /\ IdOf(a) = IdOf(b)
    /\ \E i \in Positions(observed[s], a), j \in Positions(observed[s], b) : i < j
    /\ Positions(expected[s], a) # {}
    /\ Positions(expected[s], b) # {}
    /\ \A i \in Positions(expected[s], a), j \in Positions(expected[s], b) : j < i

C11_EventOrder ==
    \A s \in DOMAIN watchers : \A a, b \in Events : ~Inverted(s, a, b)

Count(seq, ev) == Cardinality(Positions(seq, ev))

EventOf(op) ==
    IF op.op = "set" THEN [Event |-> "set", ID |-> op.data.Domain]
    ELSE [Event |-> "remove", ID |-> op.id]

StoreOps ==
    { [op |-> "set", data |-> WithID(r)] : r \in Routes }
    \cup { [op |-> "remove", id |-> id] : id \in RouteIDs }

Finished(r) == r.pc = "done"

Statuses_of(r) == [i \in 1..Len(r.resps) |-> r.resps[i].status]

\* The request went to a backend and the backend's answer (or the tunnel) to
\* the client.
Proxied(r) ==
    /\ Len(r.fwd) = 1
    /\ \/ r.tunnel /\ r.resps = NoResponse
       \/ Statuses_of(r) = <<200>>

\* The discovery service and the network did their part: the pool was not
\* empty when read and neither the transport nor the tunnel failed.
EnvFailures == {"nopool", "dialerr", "readerr", "hijackerr", "writeerr"}

C17_StickyIffRoute ==
    (rq.pc \in {"fresh", "picked", "done"} /\ rq.route # NilRoute /\ ~rq.panic)
      => /\ rq.sticky = rq.route.Sticky
         /\ ~rq.route.Sticky => rq.newCookie = NoCookie

\* C18 as stated: the status of each failure, and no request forwarded to a
\* backend in any of them.
C18_NeverForwarded ==
    (Finished(rq) /\ rq.path = Path_ServeHTTP)
      => /\ rq.route = NilRoute => Statuses_of(rq) = <<404>> /\ rq.fwd = <<>>
         /\ rq.transport = "nopool" => Statuses_of(rq) = <<503>> /\ rq.fwd = <<>>
         /\ (~rq.upgrade /\ rq.transport \in {"dialerr", "readerr"})
               => Statuses_of(rq) = <<500>> /\ rq.fwd = <<>>
         /\ (rq.upgrade /\ rq.transport = "dialerr")
               => Statuses_of(rq) = <<503>> /\ rq.fwd = <<>>
         /\ (rq.upgrade /\ rq.transport = "hijackerr")
               => Statuses_of(rq) = <<500>> /\ rq.fwd = <<>>

\* C18: no route gives 404, an empty pool 503, a transport error on the
\* ordinary path 500, a failed dial on the upgrade path 503 and a failed
\* hijack 500; nothing is forwarded in any of them except when the transport
\* failed after it had sent the request.
C18_FailureStatuses ==
    (Finished(rq) /\ rq.path = Path_ServeHTTP)
      => /\ rq.route = NilRoute => Statuses_of(rq) = <<404>> /\ rq.fwd = <<>>
         /\ rq.transport = "nopool" => Statuses_of(rq) = <<503>> /\ rq.fwd = <<>>
         /\ (~rq.upgrade /\ rq.transport = "dialerr")
               => Statuses_of(rq) = <<500>> /\ rq.fwd = <<>>
         /\ (~rq.upgrade /\ rq.transport = "readerr")
               => Statuses_of(rq) = <<500>>
         /\ (rq.upgrade /\ rq.transport = "dialerr")
               => Statuses_of(rq) = <<503>> /\ rq.fwd = <<>>
         /\ (rq.upgrade /\ rq.transport = "hijackerr")
               => Statuses_of(rq) = <<500>> /\ rq.fwd = <<>>

C18_Witness ==
    /\ Finished(rq)
    /\ rq.path = Path_ServeHTTP
    /\ rq.upgrade
    /\ rq.transport = "dialerr"
    /\ Statuses_of(rq) = <<503>>

\* The snapshot of the pool the selection read last.
PoolAtPick(r) == IF r.fresh THEN r.snap ELSE r.snap1

C15_SealOpen ==
    (rq.pc \in {"fresh", "picked", "done"} /\ rq.sticky)
      => /\ \A b \in AllAddrs, v \in NonceVals :
               rq.cookie = SealCookie(b, Nonce(v), cookieKey)
                 => rq.opened = [ok |-> TRUE, res |-> b]
         /\ rq.cookie \in BadCookies
               => /\ ~rq.opened.ok
                  /\ rq.pc \in {"picked", "done"} => rq.fresh
         /\ rq.newCookie.present
               => OpenCookie(rq.newCookie, cookieKey) = [ok |-> TRUE, res |-> rq.backend]

C15_Witness ==
    /\ rq.pc = "picked"
    /\ rq.sticky
    /\ rq.cookie \in ForeignCookies
    /\ rq.fresh
    /\ rq.newCookie.present

\* C16: no hop-by-hop header is on a request forwarded on the ordinary path
\* nor on a response returned to the client.
HopNames(h) == (DOMAIN h) \cap Range(hopHeaders)

C16_NoHopHeaders ==
    (Finished(rq) /\ ~rq.upgrade /\ ~rq.tunnel)
      => /\ \A i \in 1..Len(rq.fwd) : HopNames(rq.fwd[i]) = {}
         /\ \A i \in 1..Len(rq.resps) : HopNames(rq.resps[i].hdrs) = {}

\* C19: the certificate callback returns the key pair of the route that
\* findRouteForHost returns for the server name, with no error, and
\* errMissingTLS with no certificate when no route matches.
C19_CertOfRoute ==
    [][ hello' # hello =>
          LET r == findRouteForHost(hello'.name)
          IN  IF r = NilRoute
              THEN hello'.err = errMissingTLS /\ hello'.cert = NilCert
              ELSE hello'.err = "nil" /\ hello'.cert = KeypairOf(r) ]_vars

C19_Witness ==
    /\ hello.name = <<"A", ".", "C">>
    /\ hello.err = "nil"
    /\ hello.cert.parsed
    /\ \E id \in DOMAIN routes :
          routes[id].ptr = hello.cert.route /\ routes[id].Domain = Dom_a_c

\* C20: Start spawns the plain listener only after the sync loop reported
\* nil and the TLS listener only after the plain listener reported nil; a
\* sync error is returned with nothing undone; a plain listener error is
\* returned after one StopSync; a TLS listener error is returned after one
\* StopSync and one Close of the plain listener; nil is returned only when
\* all three reported nil, with nothing stopped or closed.
Before(log, a, b) ==
    \A j \in 1..Len(log) : log[j] = b => \E i \in 1..(j - 1) : log[i] = a

In(log, a) == \E i \in 1..Len(log) : log[i] = a

C20_StartOrder ==
    /\ Before(boot.log, "sync", "sync:ok")
    /\ Before(boot.log, "sync:ok", "listen")
    /\ Before(boot.log, "listen:ok", "tls")
    /\ In(boot.log, "sync:err")
         => boot.ret = "error" /\ stopSyncs = 0 /\ listenerCloses = 0
            /\ ~In(boot.log, "listen")
    /\ In(boot.log, "listen:err")
         => boot.ret = "error" /\ stopSyncs = 1 /\ listenerCloses = 0
            /\ ~In(boot.log, "tls")
    /\ In(boot.log, "tls:err")
         => boot.ret = "error" /\ stopSyncs = 1 /\ listenerCloses = 1
    /\ boot.ret = "error"
         => In(boot.log, "sync:err") \/ In(boot.log, "listen:err") \/ In(boot.log, "tls:err")
    /\ boot.ret = "nil"
         => /\ boot.log = <<"sync", "sync:ok", "listen", "listen:ok", "tls", "tls:ok",
                           "return nil">>
            /\ boot.listener /\ boot.tlsListener
            /\ stopSyncs = 0 /\ listenerCloses = 0

C20_Witness ==
    /\ boot.ret = "error"
    /\ In(boot.log, "tls:err")
    /\ stopSyncs = 1
    /\ listenerCloses = 1

\* C21: no operation performs I/O (a discovery call, a listener close, a
\* store call) while it holds the route-table lock for writing.
C21_NoIOUnderWriteLock ==
    \A c \in io : c.lock # "W"

\* C30: Start reads a listener handle only after the task that creates it
\* has assigned it: s.listener when it receives the plain listener's nil,
\* s.tlsListener when it takes its last step.
C30_ReadAfterAssign ==
    [][ /\ (boot.pc = "waitListen" /\ boot'.pc = "waitTLS" => boot.listener)
        /\ (boot.pc = "readTLS" /\ boot'.pc = "done" => boot.tlsListener) ]_vars

\* C26: when the handler's Set is applied to a route ID that is in the table
\* with another service name, the refcount of the service entry the stored
\* route links to goes down by one, and at zero that entry is closed and
\* taken out of the services map.
C26_OldServiceReleased ==
    [][ ( /\ syncq # <<>>
          /\ Head(syncq).op = "set"
          /\ syncq' = Tail(syncq)
          /\ ~closed
          /\ herr' = "nil"
          /\ Head(syncq).data.ID \in DOMAIN routes
          /\ serviceObjs[routes[Head(syncq).data.ID].service].name
               # Head(syncq).data.Service )
        => LET old == routes[Head(syncq).data.ID].service
           IN  /\ serviceObjs'[old].refs = serviceObjs[old].refs - 1
               /\ serviceObjs'[old].refs <= 0
                    => /\ serviceObjs'[old].closes = serviceObjs[old].closes + 1
                       /\ old \notin Range(services') ]_vars

\* C27 as stated: a sticky request whose cookie opens to an address of the
\* Addrs() snapshot gets exactly that address and no new cookie.
C27_StickyHit ==
    ( /\ rq.pc \in {"fresh", "picked", "done"}
      /\ rq.sticky
      /\ rq.opened.ok
      /\ rq.opened.res \in rq.snap1 )
      => /\ rq.pc # "fresh"
         /\ ~rq.fresh
         /\ rq.backend = rq.opened.res
         /\ ~rq.newCookie.present

\* C27, amended: a sticky request whose cookie opens to an address of the
\* Addrs() snapshot, and whose dial of that address (made by the selection
\* itself on the raw-connection path) does not fail, gets exactly that address and no new cookie, and a completed
\* response carries no Set-Cookie.
C27_StickyHitReachable ==
    ( /\ rq.pc \in {"fresh", "picked", "done"}
      /\ rq.sticky
      /\ rq.opened.ok
      /\ rq.opened.res \in rq.snap1
      /\ ~rq.dialFailed )
      => /\ rq.pc # "fresh"
         /\ ~rq.fresh
         /\ rq.backend = rq.opened.res
         /\ ~rq.newCookie.present
         /\ (Finished(rq) /\ rq.transport = "ok")
               => Get(rq.resps[1].hdrs, "Set-Cookie") = Val_empty

C27_Witness ==
    /\ Finished(rq)
    /\ rq.path = Path_handle
    /\ rq.sticky
    /\ rq.opened = [ok |-> TRUE, res |-> "b2"]
    /\ rq.snap1 = {"b1", "b2"}
    /\ rq.backend = "b2"
    /\ rq.transport = "ok"

\* C22: the tunnel runs two copies; once either copy has completed the
\* handler can return without waiting for anything else, and when it has
\* returned both the upstream and the downstream connection are closed.
C22_TunnelEnds ==
    /\ tun.pc = "copying"
         => tun.up \in {"running", "done"} /\ tun.down \in {"running", "done"}
    /\ (tun.pc = "copying" /\ (tun.up = "done" \/ tun.down = "done"))
         => CanReturn(tun)
    /\ tun.pc = "returned" => tun.upClosed /\ tun.downClosed

\* C23: a waitForJobEvents call that has not reached its counts is over no
\* later than 60 seconds after it started waiting, and a watcher that has
\* seen no current event makes Perform fail no later than 5 seconds after the
\* watch started, whatever other events arrive in the meantime.
C23_TimeoutsHold ==
    /\ wait.pc = "waiting" => wait.elapsed <= JobEventsTimeout
    /\ perform.pc = "watching" => perform.waited <= WatcherTimeout

\* C24: the strategy is invoked only after, for every process type of the
\* release that defines a service, the watcher has delivered a current event
\* to Perform; when the event channel is closed before that, Perform returns
\* an error and the strategy is never invoked.
C24_CurrentBeforeStrategy ==
    /\ perform.invoked
         => \A typ \in DOMAIN perform.procs :
               perform.procs[typ] # "" => typ \in perform.synced
    /\ perform.chan = "closed"
         => perform.pc = "returned" /\ perform.ret = "error" /\ ~perform.invoked

C24_Witness ==
    /\ perform.invoked
    /\ perform.consumed
    /\ perform.procs = [t \in Types |-> IF t = "web" THEN "web-svc" ELSE "worker-svc"]
    /\ perform.synced = Types

\* The sum of the counts in actual.
RECURSIVE SumOver(_, _)
SumOver(f, S) ==
    IF S = {} THEN 0
    ELSE LET x == CHOOSE y \in S : TRUE IN f[x] + SumOver(f, S \ {x})

Total(m) ==
    SumOver([t \in DOMAIN m |-> SumOver(m[t], DOMAIN m[t])], DOMAIN m)

\* C28: within one waitForJobEvents call at most one deployment event is
\* emitted and at most one is counted for each pair (job ID, state), however
\* often events report the pair.
C28_OncePerPair ==
    /\ \A pair \in DOMAIN wait.emitted : wait.emitted[pair] <= 1
    /\ \A pair \in DOMAIN wait.counted : wait.counted[pair] <= 1
    /\ DOMAIN wait.emitted = wait.sentEvents
    /\ Total(wait.actual) = Cardinality(wait.sentEvents)

C28_Witness ==
    /\ wait.dup
    /\ wait.last.src = "job"
    /\ <<"j1", "up">> \in wait.sentEvents
    /\ <<"j2", "up">> \in wait.sentEvents
    /\ wait.emitted[<<"j1", "up">>] = 1

\* C29: for a process type that uses service discovery, a job event of the
\* awaited release in state up changes no count and emits nothing, and a job
\* event in a down state (down, crashed, failed), received while at least
\* one up is expected for the type, emits one down deployment event and makes
\* waitForJobEvents return an error.
C29_ServiceTypeJobEvents ==
    [][ ( /\ wait.pc = "waiting"
          /\ wait' # wait
          /\ wait'.last.src = "job"
          /\ wait'.last.ev.release
          /\ wait'.last.ev.typ \notin perform.useJobEvents )
        => LET ev == wait'.last.ev
               pair == <<ev.job, "down">>
           IN  /\ ev.state = "up"
                    => /\ wait'.pc = "waiting"
                       /\ wait'.actual = wait.actual
                       /\ wait'.emitted = wait.emitted
               /\ ( /\ ev.state \in {"down", "crashed", "failed"}
                    /\ CountOf(wait.expected, ev.typ, "up") > 0 )
                    => /\ wait'.pc = "returned"
                       /\ wait'.ret \notin {"none", "nil"}
                       /\ pair \notin DOMAIN wait.emitted
                       /\ wait'.emitted = MapPut(wait.emitted, pair, 1) ]_vars

C29_Witness ==
    /\ wait.pc = "returned"
    /\ wait.ret = "failed to start"
    /\ wait.last.src = "job"
    /\ wait.last.ev.state = "crashed"
    /\ wait.last.ev.typ = "web"
    /\ <<"j1", "up">> \in wait.sentEvents
    /\ <<"j2", "down">> \in DOMAIN wait.emitted

\* C25: a request other than OPTIONS or /ping whose credentials are missing or
\* differ from the configured key gets 401 and is not passed to main, for
\* every configured key; a request that main serves on the strength of its
\* key parameter gave no basic-auth password and accepts text/event-stream.
C25_OnlyAuthenticated ==
    (auth.pc = "done" /\ auth.req.path # "/ping" /\ auth.req.method # "OPTIONS") =>
        LET r == auth.req
            basic == parseBasicAuth(r.authorization)
            hasBasic == ~basic.err /\ basic.password # <<>>
            hasKey == AcceptsEventStream(r) /\ r.key # <<>>
            missing == ~hasBasic /\ ~hasKey
            given == IF hasBasic THEN basic.password ELSE r.key
        IN /\ (missing \/ given # auth.key) => (auth.status = 401 /\ ~auth.served)
           /\ (auth.served /\ basic.password # auth.key) =>
                  (basic.password = <<>> /\ AcceptsEventStream(r) /\ r.key = auth.key)

\* C31: before Close, no route stored in the id map or in the domain map
\* links to a service entry whose discovery handle has been closed: every
\* route findRouteForHost can return has an open handle.
C31_LinkedHandlesOpen ==
    ~closed =>
        \A r \in Range(routes) \cup Range(domains) :
            serviceObjs[r.service].closes = 0

C33_ForwardersEnd == StreamsClosed => fwd.sending = {}

\* C34: the certificate callback never returns a nil error without a
\* certificate: for a server name that matches a route with no TLS key pair
\* it returns errMissingTLS.
C34_NoSuccessWithoutCert ==
    /\ hello.err = "nil" => hello.cert.parsed
    /\ (hello.err # "none" /\ ~hello.cert.parsed) => hello.err = errMissingTLS

\* host is a strict subdomain of suffix: it ends with a dot followed by the
\* suffix and has at least one more label before it.
StrictSubdomain(host, suffix) ==
    /\ Len(host) > Len(suffix) + 1
    /\ SubSeq(host, Len(host) - Len(suffix), Len(host)) = <<".">> \o suffix

\* C35: a lookup that is answered by a wildcard route *.s was made for a
\* host that is a strict subdomain of s; the host s itself is not matched by
\* *.s.
C35_WildcardStrictSubdomain ==
    \A host \in Hosts :
        LET h == ToLower(host)
            res == findRouteForHost(host)
            key == ToLower(res.Domain)
        IN  (res # NilRoute /\ h \notin DOMAIN domains)
            => /\ SubSeq(key, 1, 2) = <<"*", ".">>
               /\ StrictSubdomain(h, SubSeq(key, 3, Len(key)))

\* C36: on a connection served by HTTPListener.handle every request read has
\* exactly one response written when the handler reads the next request;
\* otherwise the connection has been closed.
C36_OneResponsePerRequest ==
    \A i \in 1..Len(conn.log) :
        \/ Len(conn.log[i].resps) = 1
        \/ (i = Len(conn.log) /\ conn.pc = "closed" /\ conn.log[i].done)

\* C37: a sync-handler call that fails (Set returning an error, Remove
\* returning ErrNotFound) leaves the id map, the domain map, the services map
\* and every service entry as they were, and spawns no event.
C37_FailedCallNoEffect ==
    [][ ( /\ syncq # <<>>
          /\ syncq' = Tail(syncq)
          /\ herr' \in {"error", "ErrNotFound"} )
        => ( /\ routes' = routes
             /\ domains' = domains
             /\ services' = services
             /\ serviceObjs' = serviceObjs
             /\ sends' = sends ) ]_vars

\* C37 witness: a Remove for an unknown ID failed against a table that holds
\* a route.
C37_Witness ==
    /\ herr = "ErrNotFound"
    /\ routes # EmptyMap
    /\ services # EmptyMap

\* C38: once Close has returned, a sync-handler Set or Remove changes
\* nothing: the id map, the domain map, the services map and the service
\* entries with their refcounts stay as they are, no discovery service set is
\* created, no handle is closed and no event is spawned.
C38_ClosedHandlerNoEffect ==
    [][ ( /\ closed
          /\ syncq # <<>>
          /\ syncq' = Tail(syncq) )
        => ( /\ routes' = routes
             /\ domains' = domains
             /\ services' = services
             /\ serviceObjs' = serviceObjs
             /\ nroutes' = nroutes
             /\ io' = {}
             /\ sends' = sends ) ]_vars

\* C38 witness: the handler has run and returned nil although no route was
\* ever applied, which only a call made after Close does.
C38_Witness ==
    /\ closed
    /\ herr = "nil"
    /\ nroutes = 0
    /\ syncq = <<>>

====
